---- MODULE Spec2Model ----
(*****************************************************************************)
(* Model of the dataset-splitting, dataset-generation and cross-validation   *)
(* logic of                                                                  *)
(*   src/create_datasets/save_datasets.py                                    *)
(*   src/create_datasets/generate_realizations_of_dataset.py                 *)
(*   src/single_experiment_runner.py                                         *)
(*                                                                           *)
(* Eight state machines share this module, one per entry point; the          *)
(* variables of those that are not running keep their idle values:           *)
(*   Spec        improved_save_data         (save_datasets.py)               *)
(*   SpecTrim    trim_edges on its own      (save_datasets.py)               *)
(*   Spec2D      generate_2D_dataset alone  (save_datasets.py)               *)
(*   SpecBucket  get_bucket on its own      (save_datasets.py)               *)
(*   SpecScript  the script's main block    (save_datasets.py)               *)
(*   SpecGen     generate_data              (generate_realizations_of_dataset.py) *)
(*   SpecCV      do_cross_validation        (single_experiment_runner.py)    *)
(*   SpecLoad    load_organized_dataset     (single_experiment_runner.py)    *)
(*                                                                           *)
(* Abstractions.  A volume is its patient and its number of slices           *)
(* (shape[2]); voxel values and the in-plane shape, taken to be the same     *)
(* for all volumes, are not modelled.  A mask is an array as deep as the     *)
(* volume it was drawn on, holding a filled box: the box's extent in z and   *)
(* its in-plane area, so that its voxel count and its box volume are         *)
(* area * extent.  In save_datasets a patient name is the sequence of its    *)
(* characters, so that names can be concatenated; in do_cross_validation     *)
(* patient ids are positive integers and the empty string "" is 0.           *)
(* Floating point expressions are evaluated as exact rationals               *)
(* (cross-multiplied); for the sizes the model reaches both give the same    *)
(* comparisons and the same roundings.  A raised exception ends the run,     *)
(* with its name as the position.  The file system is the set of folders     *)
(* that exist and the list of files written; a path is the sequence of       *)
(* its components.  The dialogs and the folders of improved_save_data vary   *)
(* for one cohort only, the datasets for one setting of them.                *)
(*****************************************************************************)
EXTENDS Integers, Sequences, FiniteSets, TLC

\* ==================================================================== state

\* improved_save_data.
VARIABLES
    sv_pc,                \* where improved_save_data is, or the exception raised
    given,                \* x_set, y_set, patients, masks as passed
    trim_data,            \* argument
    data_interpolation,   \* argument: TRUE for the pixel spacing, FALSE for None
    convert_to_2d,        \* argument
    data,                 \* x_set, y_set, patients, masks as bound now
    medians_by_label,     \* doubled
    results,
    train_to_total_ratio, \* << numerator, denominator >>
    train_nums, test_nums,
    train_set, test_set,  \* train_set_x, train_set_y, train_set_patients, ...
    median_indices,
    pos,                  \* i of the first distribution loop
    saved                 \* what save_dataset_correctly was given, in order

\* improved_save_data: its other arguments, and the world around it.
VARIABLES
    plot_data, skip_dialog,   \* arguments
    resampling,               \* argument: TRUE for (5, None), FALSE for None
    dataset_name,             \* "organized" and the suffixes added to it
    folders,                  \* the folders that exist
    files,                    \* the files written, in order
    prompts,                  \* the prompts input() was called with, in order
    answer                    \* the last line typed at the confirmation prompt

call_vars == << plot_data, skip_dialog, resampling >>
io_vars == << dataset_name, folders, files, prompts, answer >>

save_vars == << sv_pc, given, trim_data, data_interpolation, convert_to_2d, data,
                medians_by_label, results, train_to_total_ratio, train_nums,
                test_nums, train_set, test_set, median_indices, pos, saved,
                call_vars, io_vars >>

\* A call of trim_edges.
VARIABLES
    te_pc,          \* "call", "returned", or the exception raised
    te_array_sort, te_sort_method, te_trim_pos, te_set,    \* arguments
    te_returned     \* the four lists returned, or "None"

trim_vars == << te_pc, te_array_sort, te_sort_method, te_trim_pos, te_set,
                te_returned >>

\* A call of generate_2D_dataset.
VARIABLES
    g2_pc,          \* "call", "returned", or the exception raised
    g2_samples, g2_rotate_data,    \* arguments: the four lists, and the flag
    g2_returned     \* x_dataset, y_dataset, patients_dataset, masks_dataset

g2d_vars == << g2_pc, g2_samples, g2_rotate_data, g2_returned >>

\* do_cross_validation.
VARIABLES
    cv_pc,             \* position in do_cross_validation
    patients_whole,    \* patient id of every slice of the whole set
    num_patients,      \* as main computes it: len(np.unique(patients_whole))
    patient_level_cv,  \* the patient_level_cv argument
    num_folds,
    folds_indices,     \* patient level only
    fold_iter,         \* how many values range(num_folds) has handed out
    i,                 \* the loop variable i (also the ROC loop's variable)
    idx0, idx1,
    x_train_cv,        \* indices (0-based) of the samples of the training set
    x_test_cv,
    data_splits,
    all_data_log, tr_all_data_log, pat_all_data_log,
    patient_splits,
    rocs

cv_vars == << cv_pc, patients_whole, num_patients, patient_level_cv, num_folds,
              folds_indices, fold_iter, i, idx0, idx1, x_train_cv, x_test_cv,
              data_splits, all_data_log, tr_all_data_log, pat_all_data_log,
              patient_splits, rocs >>

\* load_organized_dataset.
VARIABLES
    lo_pc,          \* "call", the file being read, "returned", or the exception
    lo_folder,      \* the files under path: what each holds, or "missing"
    train_arrays,   \* << x_train, y_train >>
    test_arrays,    \* << x_test, y_test >>
    pickles,        \* patients_train, patients_test, mask_train, mask_test
    lo_returned     \* the four pairs returned, or "None"

load_vars == << lo_pc, lo_folder, train_arrays, test_arrays, pickles, lo_returned >>

\* The script of save_datasets.py.
VARIABLES
    sc_pc,          \* "start", "loaded", "checked", "called", or the exception
    sc_files,       \* the lengths of the lists in the four dataset pickles
    sc_lists,       \* x, y, patients, masks as loaded: the length of each
    sc_old_format,  \* old_format
    sc_called       \* the function called with the lists, or "None"

script_vars == << sc_pc, sc_files, sc_lists, sc_old_format, sc_called >>

\* A call of get_bucket.
VARIABLES
    gb_pc,                            \* "call" or "returned"
    gb_bucket0, gb_bucket1, gb_ratio, \* arguments; the ratio as << num, den >>
    gb_returned

bucket_vars == << gb_pc, gb_bucket0, gb_bucket1, gb_ratio, gb_returned >>

\* generate_data.
VARIABLES
    gn_pc,                  \* "call", "loop", "saving", "saved", or the exception
    num_samples, number_first_patient, show_images,    \* arguments
    gn_i,                   \* how many values range(num_samples) has handed out
    patient_counter,
    gn_lists,               \* volumes, labels, patients, masks
    gn_saved                \* the lists pickled, by file

gen_vars == << gn_pc, num_samples, number_first_patient, show_images, gn_i,
               patient_counter, gn_lists, gn_saved >>

\* A call of calculate_patients_label.
VARIABLES
    cl_pc,                  \* "loop", "returned", or the exception
    slices_labels,          \* argument: the label of every slice
    cl_patients,            \* argument patients: the patient id of every slice
    cl_i,                   \* how many pairs zip has handed out
    patient_percentages,    \* every entry a fraction << num, den >>
    cl_prev_patient,        \* prev_patient
    cl_num_slices,          \* num_slices
    cl_returned

label_vars == << cl_pc, slices_labels, cl_patients, cl_i, patient_percentages,
                 cl_prev_patient, cl_num_slices, cl_returned >>

aux_vars == << load_vars, script_vars, bucket_vars, gen_vars, label_vars >>

vars == << cv_vars, save_vars, trim_vars, g2d_vars, aux_vars >>

\* ------------------------------------------------------------------ bounds

\* Most patients of a dataset handed to do_cross_validation, and how many
\* slices beyond the first of each patient it holds.
MaxPatientsCV == 22
MaxExtraSlices == 1

\* --------------------------------------------------------------- arithmetic

Abs(x) == IF x < 0 THEN -x ELSE x

\* np.round / round of the non-negative rational num/den: nearest integer,
\* a tie goes to the even neighbour.
RoundHalfEven(num, den) ==
    LET q == num \div den
        r == num % den
    IN  IF 2 * r < den THEN q
        ELSE IF 2 * r > den THEN q + 1
        ELSE IF q % 2 = 0 THEN q ELSE q + 1

\* np.ceil of the non-negative rational num/den.
Ceil(num, den) == (num + den - 1) \div den

\* Python's seq[a:b] for 0 <= a, b (0-based, b exclusive, clipped).
Slice(seq, a, b) ==
    LET hi == IF b > Len(seq) THEN Len(seq) ELSE b
    IN  IF a >= hi THEN << >> ELSE SubSeq(seq, a + 1, hi)

Range(seq) == {seq[k] : k \in 1..Len(seq)}

\* The elements of a finite set of integers in increasing order.
RECURSIVE SortedSeq(_)
SortedSeq(S) ==
    IF S = {} THEN << >>
    ELSE LET m == CHOOSE x \in S : \A y \in S : x <= y
         IN  << m >> \o SortedSeq(S \ {m})

\* sorted(seq)[k - 1]: the k-th smallest value of a sequence of integers.
KthSmallest(seq, k) ==
    CHOOSE v \in Range(seq) :
        /\ Cardinality({j \in 1..Len(seq) : seq[j] < v}) < k
        /\ k <= Cardinality({j \in 1..Len(seq) : seq[j] <= v})

\* Python's sorted(seq)[idx] for -len <= idx < len: a negative index counts
\* from the end.
SortedAt(seq, idx) ==
    IF idx < 0 THEN KthSmallest(seq, Len(seq) + idx + 1)
    ELSE KthSmallest(seq, idx + 1)

\* ============================================================ save_datasets

Labels == {0, 1}

\* The decimal digits of n >= 0.
RECURSIVE Digits(_)
Digits(n) == IF n < 10 THEN << n >> ELSE Append(Digits(n \div 10), n % 10)

\* A patient name is a string, here the sequence of its characters, each a
\* number; str(90) is "90".
Name(k) == << k >>
Str(k) == Digits(k)

\* volume.shape[2], and what get_size_mask reads off a mask: the extent of
\* the contour along z, its number of voxels and the volume of its box.
NumSlices(volume) == volume.slices
MaskExtent(mask) == mask.ext
MaskSize(mask) == mask.area * mask.ext
MaskBoxSize(mask) == mask.ext * mask.area

\* Fewest slices, of the volume and of the contour, of a patient that is not
\* ignored, which is also slices_per_sample.
MinSlices == 3

\* Four parallel lists.
DataSet(x, y, p, m) == [x |-> x, y |-> y, patients |-> p, masks |-> m]
EmptyDataSet == DataSet(<< >>, << >>, << >>, << >>)

\* The four appends that add one patient to a set.
AppendSample(set, volume, label, patient, mask) ==
    DataSet(Append(set.x, volume), Append(set.y, label),
            Append(set.patients, patient), Append(set.masks, mask))

\* A move that forgets to pop the mask of the patient it moves.
MoveLast_KeepsMask(from, to) ==
    << DataSet(SubSeq(from.x, 1, Len(from.x) - 1), SubSeq(from.y, 1, Len(from.y) - 1),
               SubSeq(from.patients, 1, Len(from.patients) - 1), from.masks),
       DataSet(Append(to.x, from.x[Len(from.x)]), Append(to.y, from.y[Len(from.y)]),
               Append(to.patients, from.patients[Len(from.patients)]),
               Append(to.masks, from.masks[Len(from.masks)])) >>

\* The four pops and appends that move the last patient of one set to the
\* end of the other: the pair << from, to >> afterwards.
Front(seq) == SubSeq(seq, 1, Len(seq) - 1)
Last(seq) == seq[Len(seq)]
MoveLast(from, to) ==
    << DataSet(Front(from.x), Front(from.y), Front(from.patients), Front(from.masks)),
       DataSet(Append(to.x, Last(from.x)), Append(to.y, Last(from.y)),
               Append(to.patients, Last(from.patients)),
               Append(to.masks, Last(from.masks))) >>

\* ---------------------------------------------------------------- get_bucket

\* A get_bucket that fills the bucket that is already too full.
GetBucket_Inverted(bucket0, bucket1, ratio) ==
    IF bucket0 + bucket1 # 0 /\ bucket0 * ratio[2] >= ratio[1] * (bucket0 + bucket1)
    THEN 0 ELSE 1

\* get_bucket: 0 when bucket0 / (bucket0 + bucket1) < ratio, 1 otherwise; the
\* ratio of two empty buckets counts as 0.  ratio is << numerator, denominator >>.
GetBucket(bucket0, bucket1, ratio) ==
    LET below == IF bucket0 + bucket1 = 0
                 THEN 0 < ratio[1]
                 ELSE bucket0 * ratio[2] < ratio[1] * (bucket0 + bucket1)
    IN  IF below THEN 0 ELSE 1

\* -------------------------------------------------------------- analyze_data

\* np.median, doubled so that it stays an integer.
Median2(seq) ==
    LET n == Len(seq)
    IN  IF n % 2 = 1 THEN 2 * KthSmallest(seq, (n + 1) \div 2)
        ELSE KthSmallest(seq, n \div 2) + KthSmallest(seq, n \div 2 + 1)

\* The positions analyze_data does not skip at line 260, and those it counts.
NotTooThin(volumes) == {k \in 1..Len(volumes) : NumSlices(volumes[k]) >= MinSlices}
Counted(volumes, masks) ==
    {k \in NotTooThin(volumes) : MaskExtent(masks[k]) >= MinSlices}

\* plot_histogram, lines 139-157: the positions of the vertical lines in a
\* sorted list of n values, for the percentages 0.1, 0.25, 0.75 and 0.9; the
\* list is indexed at each (0-based), which raises IndexError past its end.
HistogramPercentages == {10, 25, 75, 90}
HistogramPos(n, p) == RoundHalfEven(n * p, 100)
HistogramRaises(n) == \E p \in HistogramPercentages : HistogramPos(n, p) >= n

\* analyze_data up to its plots: the lists by label, abs_num_slices, and the
\* medians.  It raises ValueError (np.min of an empty list) when a label has
\* no counted patient, and IndexError (plot_histogram) when a label has too
\* few of them for the lines of its histogram.
AnalyzeData(volumes, labels, masks) ==
    LET of(l) == SortedSeq({k \in Counted(volumes, masks) : labels[k] = l})
        thick == SortedSeq(NotTooThin(volumes))
        all_slices == [l \in Labels |->
                         [j \in 1..Len(of(l)) |-> NumSlices(volumes[of(l)[j]])]]
    IN  [ raised     |-> IF of(1) = << >> \/ of(0) = << >> THEN "ValueError"
                         ELSE IF \E l \in Labels : HistogramRaises(Len(of(l)))
                         THEN "IndexError"
                         ELSE "",
          num_labels |-> [l \in Labels |-> Len(of(l))],
          medians2   |-> [l \in Labels |->
                            IF of(l) = << >> THEN 0 ELSE Median2(all_slices[l])],
          all_slices |-> all_slices,
          all_sizes  |-> [l \in Labels |->
                            [j \in 1..Len(of(l)) |-> MaskSize(masks[of(l)[j]])]],
          all_sizes_masks |-> [l \in Labels |->
                            [j \in 1..Len(of(l)) |-> MaskBoxSize(masks[of(l)[j]])]],
          abs_num_slices |-> [j \in 1..Len(thick) |-> MaskExtent(masks[thick[j]])] ]

\* ---------------------------------------------------------------- trim_edges

SortMethods == {"slices", "sizes", "sizes_masks"}

\* The quantity of one sample that trim_edges compares with the thresholds.
SortQuantity(sort_method, volume, mask) ==
    CASE sort_method = "slices" -> NumSlices(volume)
      [] sort_method = "sizes" -> MaskSize(mask)
      [] sort_method = "sizes_masks" -> MaskBoxSize(mask)

\* num_left and num_right for n sort values; lo and hi are percentages.
NumLeft(n, lo) == RoundHalfEven(n * lo, 100)
NumRight(n, lo, hi) == RoundHalfEven(n * (100 - hi + lo), 100) - NumLeft(n, lo)

\* val_left = sorted[num_left - 1] and val_right = sorted[-num_right], with
\* Python's indexing: index -1 is the largest value, index -0 the smallest.
ValLeft(array_sort, lo) == SortedAt(array_sort, NumLeft(Len(array_sort), lo) - 1)
ValRight(array_sort, lo, hi) ==
    SortedAt(array_sort, 0 - NumRight(Len(array_sort), lo, hi))

\* A comparison that keeps the samples at the two thresholds as well.
KeepsSample_Inclusive(q, val_left, val_right) == q >= val_left /\ q <= val_right

\* Whether trim_edges keeps a sample of quantity q.
KeepsSample(q, val_left, val_right) == q > val_left /\ q < val_right

\* trim_edges for a known sort_method: the samples kept, in input order.
TrimEdges(array_sort, sort_method, set, lo, hi) ==
    LET val_left == ValLeft(array_sort, lo)
        val_right == ValRight(array_sort, lo, hi)
        kept == SortedSeq({k \in 1..Len(set.x) :
                    KeepsSample(SortQuantity(sort_method, set.x[k], set.masks[k]),
                                val_left, val_right)})
    IN  DataSet([j \in 1..Len(kept) |-> set.x[kept[j]]],
                [j \in 1..Len(kept) |-> set.y[kept[j]]],
                [j \in 1..Len(kept) |-> set.patients[kept[j]]],
                [j \in 1..Len(kept) |-> set.masks[kept[j]]])

\* ------------------------------------------------------- generate_2D_dataset

\* One sample: slices first..first+2 of the volume, normalised and rotated
\* rot times by 90 degrees; and the same window of the mask.
Window(volume, rot, first) ==
    [volume |-> volume, rot |-> rot, first |-> first, normalized |-> TRUE]
\* A mask window cut one slice further than the window of the volume.
MaskWindow_NextSlice(mask, rot, first) ==
    [mask |-> mask, rot |-> rot, first |-> first + 1,
     len |-> IF first + MinSlices <= mask.depth THEN MinSlices
             ELSE IF first < mask.depth THEN mask.depth - first ELSE 0]

\* msk[:, :, first:first + 3] is shorter than 3 slices where the mask ends.
MaskWindow(mask, rot, first) ==
    [mask |-> mask, rot |-> rot, first |-> first,
     len |-> IF first + MinSlices <= mask.depth THEN MinSlices
             ELSE IF first < mask.depth THEN mask.depth - first ELSE 0]

\* patient + (str(r * 90) if r != 0 else "").
RotatedName(patient, rot) == IF rot # 0 THEN patient \o Str(rot * 90) ELSE patient

\* range(vol.shape[2] - slices_per_sample + 1).
WindowStarts(volume) ==
    IF NumSlices(volume) - MinSlices + 1 > 0
    THEN [j \in 1..(NumSlices(volume) - MinSlices + 1) |-> j - 1]
    ELSE << >>

\* What one volume and one rotation add to the four datasets.
SamplesOf(volume, label, patient, mask, rot) ==
    LET starts == WindowStarts(volume)
    IN  DataSet([j \in 1..Len(starts) |-> Window(volume, rot, starts[j])],
                [j \in 1..Len(starts) |-> label],
                [j \in 1..Len(starts) |-> RotatedName(patient, rot)],
                [j \in 1..Len(starts) |-> MaskWindow(mask, rot, starts[j])])

Concat(a, b) == DataSet(a.x \o b.x, a.y \o b.y, a.patients \o b.patients,
                        a.masks \o b.masks)

RECURSIVE RotationsLoop(_, _, _, _)
RotationsLoop(set, k, rot, rotations) ==
    IF rot >= rotations THEN EmptyDataSet
    ELSE Concat(SamplesOf(set.x[k], set.y[k], set.patients[k], set.masks[k], rot),
                RotationsLoop(set, k, rot + 1, rotations))

RECURSIVE VolumesLoop(_, _, _)
VolumesLoop(set, k, rotations) ==
    IF k > Len(set.x) THEN EmptyDataSet
    ELSE Concat(RotationsLoop(set, k, 0, rotations),
                VolumesLoop(set, k + 1, rotations))

\* generate_2D_dataset: the four datasets, and the exception it raises, if
\* any: np.concatenate raises ValueError for a mask window whose shape is not
\* that of the windows before it, and the return statement raises
\* UnboundLocalError when no sample ever bound x_dataset.
Generate2D(set, rotate_data) ==
    LET out == VolumesLoop(set, 1, IF rotate_data THEN 4 ELSE 1)
    IN  [raised |-> IF \E k \in 1..Len(out.masks) : out.masks[k].len # out.masks[1].len
                    THEN "ValueError"
                    ELSE IF out.x = << >> THEN "UnboundLocalError" ELSE "",
         out |-> out]

\* ------------------------------------------------- folders, files, prompts

\* A path is the sequence of its components; a dataset name and a file name
\* are the sequences of the pieces they are formatted from.
DataFolder == << "data" >>
DatasetFolder(name) == << "data", name >>
FilePath(name, file) == << "data", name, file >>
Dirname(path) == SubSeq(path, 1, Len(path) - 1)

\* A name that leaves out the suffix of the 3D datasets.
DatasetName_Without3d(in_2d, trimmed, interpolated) ==
    << "organized" >>
    \o (IF trimmed THEN << "_trimmed", "2" >> ELSE << >>)
    \o (IF interpolated THEN << "_interpolated" >> ELSE << >>)

\* Lines 449-456: the suffixes added to dataset_name.
DatasetName(in_2d, trimmed, interpolated) ==
    << "organized" >>
    \o (IF ~in_2d THEN << "_3d" >> ELSE << >>)
    \o (IF trimmed THEN << "_trimmed", "2" >> ELSE << >>)
    \o (IF interpolated THEN << "_interpolated" >> ELSE << >>)

\* os.mkdir(path) inside try / except OSError: the folder is created when
\* its parent exists, and nothing happens otherwise.
Mkdir(dirs, path) ==
    IF Len(path) = 1 \/ Dirname(path) \in dirs THEN dirs \cup {path} ELSE dirs

\* What a run has done to the world: the exception it raised ("" for none),
\* the folders, the files written and the prompts shown.
World(raised, dirs, written, shown) ==
    [raised |-> raised, folders |-> dirs, files |-> written, prompts |-> shown]

\* Opening path for writing: FileNotFoundError unless its folder exists.
WriteFile(world, path) ==
    IF Dirname(path) \in world.folders
    THEN [world EXCEPT !.files = Append(@, path)]
    ELSE [world EXCEPT !.raised = "FileNotFoundError"]

\* save_plt_figures_to_pdf: the folder of the file is created, its parent
\* is not, and the file is opened.
SavePltFiguresToPdf(world, filename) ==
    WriteFile([world EXCEPT !.folders = Mkdir(@, Dirname(filename))], filename)

PressEnter == "Press ENTER to close all figures and continue."

\* analyze_data from its plots on (lines 318-360), after the analysis a: the
\* PDF is saved, and with plot_data the user is asked to press ENTER.
AnalyzeDataEnd(world, a, name, suffix, plot) ==
    LET pdf == SavePltFiguresToPdf(world,
                   FilePath(name, << "results", suffix, ".pdf" >>))
    IN  IF world.raised # "" THEN world
        ELSE IF a.raised # "" THEN [world EXCEPT !.raised = a.raised]
        ELSE IF pdf.raised # "" THEN pdf
        ELSE IF plot THEN [pdf EXCEPT !.prompts = Append(@, PressEnter)]
        ELSE pdf

\* save_dataset_correctly, lines 416-441: both folders are created if they
\* are missing, then the set (extension ".npz", or ".pkl" after ValueError),
\* the patients and the masks are written.
SaveDatasetCorrectly(world, name, dataset_subname, extension) ==
    LET dirs == Mkdir(Mkdir(world.folders, DataFolder), DatasetFolder(name))
        w0 == [world EXCEPT !.folders = dirs]
        w1 == WriteFile(w0, FilePath(name, << dataset_subname, extension >>))
        w2 == WriteFile(w1, FilePath(name, << dataset_subname, "_patients.pkl" >>))
        w3 == WriteFile(w2, FilePath(name, << dataset_subname, "_masks.pkl" >>))
    IN  IF w1.raised # "" THEN w1 ELSE IF w2.raised # "" THEN w2 ELSE w3

\* The confirmation dialog, line 648: the answer is accepted when its first
\* character, stripped and in lower case, is "y".
Strip(c) == IF c = " " THEN "" ELSE c
Lower(c) == IF c = "Y" THEN "y" ELSE IF c = "N" THEN "n" ELSE c
Accepted(line) == ~(Len(line) <= 0 \/ Lower(Strip(line[1])) # "y")
ConfirmPrompt == "Type 'y' to save data or Ctrl-C to abort."
ResultsPrompt == "results"

\* The lines a user may type.
Answers == {<< >>, << "y" >>, << "Y" >>, << "y", "e", "s" >>, << "n", "y" >>,
            << " ", "y" >>}

\* -------------------------------------------------------- improved_save_data

\* Most patients of a small input; the patients of a cohort, and how many of
\* them at most have the other label than their neighbours'; how often the
\* user may decline at the confirmation dialog.
MaxPatients == 3
CohortSize == 14
MaxFlips == 1
MaxRetries == 2

\* Patient k of an input: the volume, and its mask, of the same shape.
Volume(k, slices) == [id |-> k, slices |-> slices]
Mask(k, slices, ext, area) == [id |-> k, depth |-> slices, ext |-> ext, area |-> area]

\* Small inputs: ignored patients (a volume of 2 slices, a contour over 2
\* slices) and patients of 3 or 6 slices with either label.
SmallKinds ==
    {[label |-> 0, slices |-> 2, ext |-> 2], [label |-> 0, slices |-> 3, ext |-> 2]}
    \cup {[label |-> l, slices |-> z, ext |-> 3] : l \in Labels, z \in {3, 6}}
SmallInputs ==
    UNION { { DataSet([k \in 1..n |-> Volume(k, kinds[k].slices)],
                      [k \in 1..n |-> kinds[k].label],
                      [k \in 1..n |-> Name(k)],
                      [k \in 1..n |-> Mask(k, kinds[k].slices, kinds[k].ext, 1)])
              : kinds \in [1..n -> SmallKinds] } : n \in 1..MaxPatients }

\* A cohort: patient k has k + 2 slices and a tumour of area k; the labels
\* alternate, but for the patients of flips; the contour of the patient in
\* the middle spans 2 slices only, so that patient is ignored.  One more
\* patient, with a volume of 2 slices, may stand first or last.
CohortSlices(k) == k + 2
CohortExtent(k) == IF k = (CohortSize + 1) \div 2 THEN MinSlices - 1 ELSE MinSlices
CohortLabel(k, flips) == IF k \in flips THEN 1 - (k % 2) ELSE k % 2
ThinPlaces == {"none", "first", "last"}
Cohort(flips, thin) ==
    LET n == IF thin = "none" THEN CohortSize ELSE CohortSize + 1
        thin_at == IF thin = "first" THEN 1 ELSE IF thin = "last" THEN n ELSE 0
        id(j) == IF j = thin_at THEN CohortSize + 1
                 ELSE IF thin = "first" THEN j - 1 ELSE j
    IN  DataSet([j \in 1..n |-> IF j = thin_at THEN Volume(id(j), MinSlices - 1)
                                ELSE Volume(id(j), CohortSlices(id(j)))],
                [j \in 1..n |-> IF j = thin_at THEN 0 ELSE CohortLabel(id(j), flips)],
                [j \in 1..n |-> Name(id(j))],
                [j \in 1..n |-> IF j = thin_at
                                THEN Mask(id(j), MinSlices - 1, MinSlices - 1, CohortSize)
                                ELSE Mask(id(j), CohortSlices(id(j)),
                                          CohortExtent(id(j)), id(j))])
CohortInputs ==
    { Cohort(flips, thin) :
        flips \in {f \in SUBSET (1..CohortSize) : Cardinality(f) <= MaxFlips},
        thin \in ThinPlaces }

\* The cohort the dialogs and the folders are exercised with.
PlainCohort == Cohort({2}, "none")

\* The folders that may exist when improved_save_data is called.
FolderStates(name) ==
    { {}, {DataFolder}, {DataFolder, DatasetFolder(name)} }

ZeroNums == [group \in {0, 1} |-> [label \in Labels |-> 0]]

SaveInit ==
    /\ sv_pc = "start"
    /\ trim_data \in BOOLEAN
    /\ data_interpolation \in BOOLEAN
    /\ convert_to_2d \in BOOLEAN
    /\ \/ /\ given \in SmallInputs \cup CohortInputs
          /\ plot_data = FALSE
          /\ skip_dialog = TRUE
          /\ resampling = FALSE
          /\ folders = {DataFolder}
       \/ /\ given = PlainCohort
          /\ plot_data \in BOOLEAN
          /\ skip_dialog \in BOOLEAN
          /\ resampling \in BOOLEAN
          /\ folders \in FolderStates(DatasetName(convert_to_2d, trim_data,
                                                  data_interpolation))
    /\ dataset_name = << "organized" >>
    /\ files = << >>
    /\ prompts = << >>
    /\ answer = << >>
    /\ data = given
    /\ medians_by_label = << >>
    /\ results = << >>
    /\ train_to_total_ratio = << 0, 1 >>
    /\ train_nums = ZeroNums
    /\ test_nums = ZeroNums
    /\ train_set = EmptyDataSet
    /\ test_set = EmptyDataSet
    /\ median_indices = [label \in Labels |-> << >>]
    /\ pos = 0
    /\ saved = << >>

\* The results tuple of analyze_data.
Results(a) == [all_slices |-> a.all_slices, all_sizes |-> a.all_sizes,
               all_sizes_masks |-> a.all_sizes_masks,
               abs_num_slices |-> a.abs_num_slices]

\* Lines 449-461: the name of the dataset and the first analysis.
Analyze ==
    /\ sv_pc = "start"
    /\ LET name == DatasetName(convert_to_2d, trim_data, data_interpolation)
           a == AnalyzeData(data.x, data.y, data.masks)
           w == AnalyzeDataEnd(World("", folders, files, prompts), a, name, "",
                               plot_data)
       IN  /\ dataset_name' = name
           /\ folders' = w.folders
           /\ files' = w.files
           /\ prompts' = w.prompts
           /\ IF w.raised # ""
              THEN /\ sv_pc' = w.raised
                   /\ UNCHANGED << medians_by_label, results >>
              ELSE /\ sv_pc' = "analyzed"
                   /\ medians_by_label' = a.medians2
                   /\ results' = Results(a)
    /\ UNCHANGED << given, trim_data, data_interpolation, convert_to_2d, data,
                    train_to_total_ratio, train_nums, test_nums, train_set,
                    test_set, median_indices, pos, saved, call_vars, answer >>
    /\ UNCHANGED << cv_vars, trim_vars, g2d_vars, aux_vars >>

\* The trim positions of lines 469, 477 and 485, in percent.
TrimPosSlices == << 10, 90 >>
TrimPosSizes == << 11, 89 >>
TrimPosBoxSizes == << 11, 89 >>

\* Lines 462-500: the three trimmed datasets and their analyses; trim_option
\* is 2, so the dataset trimmed by tumour size is the one kept.
Trim ==
    /\ sv_pc = "analyzed"
    /\ trim_data
    /\ LET slices == results.all_slices[0] \o results.all_slices[1]
           sizes == results.all_sizes[0] \o results.all_sizes[1]
           box_sizes == results.all_sizes_masks[0] \o results.all_sizes_masks[1]
           set1 == TrimEdges(slices, "slices", data, TrimPosSlices[1], TrimPosSlices[2])
           a1 == AnalyzeData(set1.x, set1.y, set1.masks)
           set2 == TrimEdges(sizes, "sizes", data, TrimPosSizes[1], TrimPosSizes[2])
           a2 == AnalyzeData(set2.x, set2.y, set2.masks)
           set3 == TrimEdges(box_sizes, "sizes_masks", data,
                             TrimPosBoxSizes[1], TrimPosBoxSizes[2])
           a3 == AnalyzeData(set3.x, set3.y, set3.masks)
           w1 == AnalyzeDataEnd(World("", folders, files, prompts), a1,
                                dataset_name, "_trimmed_slices", plot_data)
           w2 == AnalyzeDataEnd(w1, a2, dataset_name, "_trimmed_sizes", plot_data)
           w3 == AnalyzeDataEnd(w2, a3, dataset_name, "_trimmed_box_sizes",
                                plot_data)
       IN  /\ folders' = w3.folders
           /\ files' = w3.files
           /\ prompts' = w3.prompts
           /\ IF w3.raised # ""
              THEN /\ sv_pc' = w3.raised
                   /\ UNCHANGED << data, medians_by_label, results >>
              ELSE /\ sv_pc' = "trimmed"
                   /\ data' = set2
                   /\ medians_by_label' = a2.medians2
                   /\ results' = Results(a2)
    /\ UNCHANGED << given, trim_data, data_interpolation, convert_to_2d,
                    train_to_total_ratio, train_nums, test_nums, train_set,
                    test_set, median_indices, pos, saved, call_vars,
                    dataset_name, answer >>
    /\ UNCHANGED << cv_vars, trim_vars, g2d_vars, aux_vars >>

\* len(rangez) for a volume of z slices 5.0 apart resampled 4.07283 apart:
\* np.arange(0, 5 * (z - 1) + 0.01, 4.07283).
InterpolatedSlices(z) == Ceil(500000 * (z - 1) + 1000, 407283)

\* Lines 502-529: every volume is resampled (the masks are not) and the
\* dataset analysed again.
Interpolate ==
    /\ \/ sv_pc = "analyzed" /\ ~trim_data
       \/ sv_pc = "trimmed"
    /\ data_interpolation
    /\ LET x_set == [k \in 1..Len(data.x) |->
                       [data.x[k] EXCEPT !.slices = InterpolatedSlices(@)]]
           a4 == AnalyzeData(x_set, data.y, data.masks)
           w4 == AnalyzeDataEnd(World("", folders, files, prompts), a4,
                                dataset_name, "_interpolated_slices", plot_data)
       IN  /\ data' = [data EXCEPT !.x = x_set]
           /\ folders' = w4.folders
           /\ files' = w4.files
           /\ prompts' = w4.prompts
           /\ IF w4.raised # ""
              THEN /\ sv_pc' = w4.raised
                   /\ UNCHANGED << medians_by_label, results >>
              ELSE /\ sv_pc' = "interpolated"
                   /\ medians_by_label' = a4.medians2
                   /\ results' = Results(a4)
    /\ UNCHANGED << given, trim_data, data_interpolation, convert_to_2d,
                    train_to_total_ratio, train_nums, test_nums, train_set,
                    test_set, median_indices, pos, saved, call_vars,
                    dataset_name, answer >>
    /\ UNCHANGED << cv_vars, trim_vars, g2d_vars, aux_vars >>

\* train_to_total_ratio of lines 551 and 553.
RatioUntrimmed == << 63, 77 >>
RatioTrimmed == << 1, 10 >>

\* Lines 531-567: with resampling the sizes of the two labels are shown and a
\* line is read; then the ratio, the counters and the empty sets.
StartSplit ==
    /\ \/ sv_pc = "analyzed" /\ ~trim_data /\ ~data_interpolation
       \/ sv_pc = "trimmed" /\ ~data_interpolation
       \/ sv_pc = "interpolated"
    /\ sv_pc' = "distribute"
    /\ train_to_total_ratio' = IF ~trim_data THEN RatioUntrimmed ELSE RatioTrimmed
    /\ train_nums' = ZeroNums
    /\ test_nums' = ZeroNums
    /\ train_set' = EmptyDataSet
    /\ test_set' = EmptyDataSet
    /\ median_indices' = [label \in Labels |-> << >>]
    /\ pos' = 0
    /\ prompts' = IF resampling THEN Append(prompts, ResultsPrompt) ELSE prompts
    /\ UNCHANGED << given, trim_data, data_interpolation, convert_to_2d, data,
                    medians_by_label, results, saved, call_vars, dataset_name,
                    folders, files, answer >>
    /\ UNCHANGED << cv_vars, trim_vars, g2d_vars, aux_vars >>

\* The counters and sets of the split.
Split(tr_nums, te_nums, trn_set, tst_set) ==
    [train_nums |-> tr_nums, test_nums |-> te_nums,
     train_set |-> trn_set, test_set |-> tst_set]

\* Lines 577-587 (and 590-600, 610-620): patient index of x_set goes to the
\* training set when bucket is 0 and to the test set otherwise, and counts
\* for the given group of its label.
Place(split, bucket, group, label, set, index) ==
    IF bucket = 0
    THEN Split([split.train_nums EXCEPT ![group][label] = @ + 1], split.test_nums,
               AppendSample(split.train_set, set.x[index], label,
                            set.patients[index], set.masks[index]),
               split.test_set)
    ELSE Split(split.train_nums, [split.test_nums EXCEPT ![group][label] = @ + 1],
               split.train_set,
               AppendSample(split.test_set, set.x[index], label,
                            set.patients[index], set.masks[index]))

\* Lines 568-602: one iteration of the first loop, for i = pos.  A patient
\* below or above the median of its label is placed by the counters of its
\* group; a patient at the median waits in median_indices.
Distribute ==
    /\ sv_pc = "distribute"
    /\ pos < Len(data.y)
    /\ LET index == pos + 1
           label == data.y[index]
           num_slices == NumSlices(data.x[index])
           now == Split(train_nums, test_nums, train_set, test_set)
           group == IF 2 * num_slices < medians_by_label[label] THEN 0 ELSE 1
           next == Place(now, GetBucket(train_nums[group][label],
                                        test_nums[group][label],
                                        train_to_total_ratio),
                         group, label, data, index)
       IN  IF num_slices < MinSlices
           THEN UNCHANGED << sv_pc, train_nums, test_nums, train_set, test_set,
                             median_indices >>
           ELSE IF index > Len(results.abs_num_slices)
           THEN /\ sv_pc' = "IndexError"
                /\ UNCHANGED << train_nums, test_nums, train_set, test_set,
                                median_indices >>
           ELSE IF results.abs_num_slices[index] < MinSlices
           THEN UNCHANGED << sv_pc, train_nums, test_nums, train_set, test_set,
                             median_indices >>
           ELSE IF 2 * num_slices = medians_by_label[label]
           THEN /\ median_indices' = [median_indices EXCEPT
                                         ![label] = Append(@, pos)]
                /\ UNCHANGED << sv_pc, train_nums, test_nums, train_set, test_set >>
           ELSE /\ train_nums' = next.train_nums
                /\ test_nums' = next.test_nums
                /\ train_set' = next.train_set
                /\ test_set' = next.test_set
                /\ UNCHANGED << sv_pc, median_indices >>
    /\ pos' = pos + 1
    /\ UNCHANGED << given, trim_data, data_interpolation, convert_to_2d, data,
                    medians_by_label, results, train_to_total_ratio, saved >>
    /\ UNCHANGED << cv_vars, trim_vars, g2d_vars, call_vars, io_vars, aux_vars >>

\* Lines 604-620 for one label: the patients at the median are placed by the
\* totals of their label and counted with the group below the median.
RECURSIVE PlaceMedians(_, _, _, _, _)
PlaceMedians(split, label, indices, set, ratio) ==
    IF indices = << >> THEN split
    ELSE LET bucket == GetBucket(
                 split.train_nums[0][label] + split.train_nums[1][label],
                 split.test_nums[0][label] + split.test_nums[1][label], ratio)
         IN  PlaceMedians(Place(split, bucket, 0, label, set, Head(indices) + 1),
                          label, Tail(indices), set, ratio)

\* Lines 603-620: the second loop, label 0 and then label 1.
MedianLoop ==
    /\ sv_pc = "distribute"
    /\ pos = Len(data.y)
    /\ LET now == Split(train_nums, test_nums, train_set, test_set)
           after0 == PlaceMedians(now, 0, median_indices[0], data,
                                  train_to_total_ratio)
           after1 == PlaceMedians(after0, 1, median_indices[1], data,
                                  train_to_total_ratio)
       IN  /\ train_nums' = after1.train_nums
           /\ test_nums' = after1.test_nums
           /\ train_set' = after1.train_set
           /\ test_set' = after1.test_set
    /\ sv_pc' = "distributed"
    /\ UNCHANGED << given, trim_data, data_interpolation, convert_to_2d, data,
                    medians_by_label, results, train_to_total_ratio,
                    median_indices, pos, saved >>
    /\ UNCHANGED << cv_vars, trim_vars, g2d_vars, call_vars, io_vars, aux_vars >>

\* abs(num_train / total - ratio), times total and the ratio's denominator.
RatioDistance(num_train, total, ratio) == Abs(num_train * ratio[2] - ratio[1] * total)

\* Lines 621-635: one patient changes sets when that brings the share of the
\* training set closer to train_to_total_ratio.
Rebalance ==
    /\ sv_pc = "distributed"
    /\ LET num_train == Len(train_set.x)
           total == Len(train_set.x) + Len(test_set.x)
           ratio == RatioDistance(num_train, total, train_to_total_ratio)
           ratio0 == RatioDistance(num_train + 1, total, train_to_total_ratio)
           ratio1 == RatioDistance(num_train - 1, total, train_to_total_ratio)
       IN  IF total = 0
           THEN /\ sv_pc' = "ZeroDivisionError"
                /\ UNCHANGED << train_set, test_set >>
           ELSE IF ratio0 < ratio
           THEN IF test_set.x = << >>
                THEN /\ sv_pc' = "IndexError"
                     /\ UNCHANGED << train_set, test_set >>
                ELSE /\ test_set' = MoveLast(test_set, train_set)[1]
                     /\ train_set' = MoveLast(test_set, train_set)[2]
                     /\ sv_pc' = "split"
           ELSE IF ratio1 < ratio
           THEN IF train_set.x = << >>
                THEN /\ sv_pc' = "IndexError"
                     /\ UNCHANGED << train_set, test_set >>
                ELSE /\ train_set' = MoveLast(train_set, test_set)[1]
                     /\ test_set' = MoveLast(train_set, test_set)[2]
                     /\ sv_pc' = "split"
           ELSE /\ sv_pc' = "split"
                /\ UNCHANGED << train_set, test_set >>
    /\ UNCHANGED << given, trim_data, data_interpolation, convert_to_2d, data,
                    medians_by_label, results, train_to_total_ratio, train_nums,
                    test_nums, median_indices, pos, saved >>
    /\ UNCHANGED << cv_vars, trim_vars, g2d_vars, call_vars, io_vars, aux_vars >>

\* Lines 647-651: the confirmation dialog.  Unless skip_dialog is set, the
\* prompt is shown and a line read until a line is accepted.
Confirm ==
    /\ sv_pc = "split"
    /\ IF ~skip_dialog /\ ~Accepted(answer)
       THEN /\ \E line \in Answers :
                 /\ \/ Accepted(line)
                    \/ Cardinality({k \in 1..Len(prompts) :
                                        prompts[k] = ConfirmPrompt}) < MaxRetries
                 /\ answer' = line
            /\ prompts' = Append(prompts, ConfirmPrompt)
            /\ UNCHANGED sv_pc
       ELSE /\ sv_pc' = "confirmed"
            /\ UNCHANGED << prompts, answer >>
    /\ UNCHANGED << given, trim_data, data_interpolation, convert_to_2d, data,
                    medians_by_label, results, train_to_total_ratio, train_nums,
                    test_nums, train_set, test_set, median_indices, pos, saved,
                    call_vars, dataset_name, folders, files >>
    /\ UNCHANGED << cv_vars, trim_vars, g2d_vars, aux_vars >>

\* What np.savez writes, and what is written after its ValueError.
Extensions == {".npz", ".pkl"}

\* Lines 652-661 and 663-671: one set is converted, if asked, and saved.
SaveSet(set, dataset_subname, then_pc) ==
    LET converted == Generate2D(set, FALSE)
    IN  IF convert_to_2d /\ converted.raised # ""
        THEN /\ sv_pc' = converted.raised
             /\ UNCHANGED << saved, folders, files >>
        ELSE \E extension \in Extensions :
               LET w == SaveDatasetCorrectly(World("", folders, files, prompts),
                                             dataset_name, dataset_subname,
                                             extension)
               IN  /\ sv_pc' = IF w.raised # "" THEN w.raised ELSE then_pc
                   /\ folders' = w.folders
                   /\ files' = w.files
                   /\ saved' = Append(saved,
                          [dataset_subname |-> dataset_subname,
                           converted |-> convert_to_2d,
                           set |-> IF convert_to_2d THEN converted.out ELSE set])

SaveTrainingSet ==
    /\ sv_pc = "confirmed"
    /\ SaveSet(train_set, "training_set", "training_set_saved")
    /\ UNCHANGED << given, trim_data, data_interpolation, convert_to_2d, data,
                    medians_by_label, results, train_to_total_ratio, train_nums,
                    test_nums, train_set, test_set, median_indices, pos,
                    call_vars, dataset_name, prompts, answer >>
    /\ UNCHANGED << cv_vars, trim_vars, g2d_vars, aux_vars >>

SaveTestSet ==
    /\ sv_pc = "training_set_saved"
    /\ SaveSet(test_set, "test_set", "done")
    /\ UNCHANGED << given, trim_data, data_interpolation, convert_to_2d, data,
                    medians_by_label, results, train_to_total_ratio, train_nums,
                    test_nums, train_set, test_set, median_indices, pos,
                    call_vars, dataset_name, prompts, answer >>
    /\ UNCHANGED << cv_vars, trim_vars, g2d_vars, aux_vars >>

SaveNext ==
    \/ Analyze
    \/ Trim
    \/ Interpolate
    \/ StartSplit
    \/ Distribute
    \/ MedianLoop
    \/ Rebalance
    \/ Confirm
    \/ SaveTrainingSet
    \/ SaveTestSet

\* ---------------------------------------------------------- calls of trim_edges

\* Most values of array_sort, and the largest of them.
MaxTrimLen == 4
MaxSortValue == 3

\* A trim_pos that cuts a quarter at each end, in percent.
TrimPosQuartiles == << 25, 75 >>

\* trim_pos of the callers and the default, and the quartiles, in percent.
TrimPositions == {TrimPosSlices, TrimPosSizes, TrimPosQuartiles}

\* Samples whose number of slices, tumour size and box size all are the sort
\* value, so that array_sort holds the sort value of every sample.
TrimSamples(values) ==
    DataSet([k \in 1..Len(values) |-> Volume(k, values[k])],
            [k \in 1..Len(values) |-> k % 2],
            [k \in 1..Len(values) |-> Name(k)],
            [k \in 1..Len(values) |-> Mask(k, values[k], 1, values[k])])

TrimInit ==
    /\ te_pc = "call"
    /\ te_array_sort \in UNION {[1..n -> 1..MaxSortValue] : n \in 0..MaxTrimLen}
    /\ te_sort_method \in SortMethods \cup {"other"}
    /\ te_trim_pos \in TrimPositions
    /\ te_set = TrimSamples(te_array_sort)
    /\ te_returned = "None"

\* trim_edges: IndexError at line 199 for an empty te_array_sort, None for a
\* te_sort_method it does not know.
CallTrimEdges ==
    /\ te_pc = "call"
    /\ IF te_array_sort = << >>
       THEN te_pc' = "IndexError" /\ UNCHANGED te_returned
       ELSE IF te_sort_method \notin SortMethods
       THEN te_pc' = "returned" /\ UNCHANGED te_returned
       ELSE /\ te_pc' = "returned"
            /\ te_returned' = TrimEdges(te_array_sort, te_sort_method, te_set,
                                        te_trim_pos[1], te_trim_pos[2])
    /\ UNCHANGED << te_array_sort, te_sort_method, te_trim_pos, te_set >>
    /\ UNCHANGED << cv_vars, save_vars, g2d_vars, aux_vars >>

TrimNext == CallTrimEdges

\* ------------------------------------------------- calls of generate_2D_dataset

\* Most volumes of a call, and most slices of a volume.
MaxVolumes == 2
MaxVolumeSlices == 5

\* The names of n patients: "1", "2", ..., or "1", "190", "1180", ...
NameLists(n) ==
    { [k \in 1..n |-> Name(k)],
      [k \in 1..n |-> IF k = 1 THEN Name(1) ELSE Name(1) \o Str(90 * (k - 1))] }

VolumeInputs ==
    UNION { { DataSet([k \in 1..n |-> Volume(k, slices[k])],
                      labels,
                      names,
                      [k \in 1..n |-> Mask(k, slices[k], slices[k], 1)])
              : slices \in [1..n -> 1..MaxVolumeSlices], labels \in [1..n -> Labels],
                names \in NameLists(n) }
            : n \in 0..MaxVolumes }

G2DInit ==
    /\ g2_pc = "call"
    /\ g2_samples \in VolumeInputs
    /\ g2_rotate_data \in BOOLEAN
    /\ g2_returned = EmptyDataSet

CallGenerate2D ==
    /\ g2_pc = "call"
    /\ LET r == Generate2D(g2_samples, g2_rotate_data)
       IN  IF r.raised # ""
           THEN g2_pc' = r.raised /\ UNCHANGED g2_returned
           ELSE g2_pc' = "returned" /\ g2_returned' = r.out
    /\ UNCHANGED << g2_samples, g2_rotate_data >>
    /\ UNCHANGED << cv_vars, save_vars, trim_vars, aux_vars >>

G2DNext == CallGenerate2D

\* ===================================================== do_cross_validation

NumFoldsSliceLevel == 10
NumFoldsPatientLevel == 11

StatKeys == {"accuracy", "recall0", "recall1", "precision0", "precision1",
             "num_label0", "num_label1", "num_labels"}
HistoryKeys == {"history_acc", "history_val_acc"}
PatientKeys == {"pred_percentages", "true_percentages"}

\* The three logs as created before the loop.
EmptyLog(keys) == [k \in keys |-> << >>]

\* len(np.unique(patients)).
NumDistinct(patients) == Cardinality(Range(patients))

\* The patients of a dataset whose slice k starts a new patient iff starts[k]:
\* every patient's slices are contiguous, ids count up from 1.
PatientsOf(starts) ==
    [k \in 1..Len(starts) |-> Cardinality({j \in 1..k : starts[j]})]

\* The datasets the model runs on: for every slice, whether it starts a new
\* patient.
CVDatasets ==
    UNION { { [k \in 1..(p + e) |-> k \notin extra] :
                extra \in {x \in SUBSET (2..(p + e)) : Cardinality(x) = e} } :
            p \in 1..MaxPatientsCV, e \in 0..MaxExtraSlices }

\* A patient test for which every slice starts a new patient.
IsNewPatient_EverySlice(patient, prev_patient) == TRUE

\* The condition under which the fold-index loop sees a new patient.
IsNewPatient(patient, prev_patient) == patient # prev_patient

\* The loop over enumerate(patients_whole) that collects the fold boundaries;
\* k is the 1-based position, so the code's i is k - 1.
RECURSIVE FoldsLoop(_, _, _, _, _, _)
FoldsLoop(patients, k, prev_patient, patient_num, per_fold, acc) ==
    IF k > Len(patients) THEN acc
    ELSE IF IsNewPatient(patients[k], prev_patient)
         THEN IF patient_num + 1 > per_fold
              THEN FoldsLoop(patients, k + 1, patients[k], 1, per_fold,
                             Append(acc, k - 1))
              ELSE FoldsLoop(patients, k + 1, patients[k], patient_num + 1,
                             per_fold, acc)
         ELSE FoldsLoop(patients, k + 1, prev_patient, patient_num, per_fold, acc)

\* folds_indices as the patient-level branch leaves it.
FoldsIndices(patients, n_patients) ==
    LET per_fold == Ceil(n_patients, NumFoldsPatientLevel)
    IN  Append(FoldsLoop(patients, 1, 0, 0, per_fold, << 0 >>), Len(patients))

\* idx0 and idx1 of fold f at slice level: round(f * size_fold) with
\* size_fold = n / num_folds.
SliceIdx(f, n) == RoundHalfEven(f * n, NumFoldsSliceLevel)

\* Training indices that start one sample after idx1.
TrainIndices_SkipsOne(n, a, b) ==
    Slice([k \in 1..n |-> k - 1], 0, a) \o Slice([k \in 1..n |-> k - 1], b + 1, n)

\* np.append(whole[:a], whole[b:]) and whole[a:b] over the indices 0..n-1.
TrainIndices(n, a, b) ==
    Slice([k \in 1..n |-> k - 1], 0, a) \o Slice([k \in 1..n |-> k - 1], b, n)
TestIndices(n, a, b) == Slice([k \in 1..n |-> k - 1], a, b)

\* What one statistic of a log records: the fold whose model produced it
\* (files_suffix=i) and the samples x_whole[a:b], or all but those, it was
\* computed on.
Stat(fold, part, a, b) == [model |-> fold, part |-> part, idx0 |-> a, idx1 |-> b]

\* A logging step whose append to "num_labels" is missing.
AppendStats_NoNumLabels(log, fold, part, a, b) ==
    [k \in DOMAIN log |->
        IF k \in StatKeys \ {"num_labels"}
        THEN Append(log[k], Stat(fold, part, a, b)) ELSE log[k]]

\* The eight appends of one block of statistics.
AppendStats(log, fold, part, a, b) ==
    [k \in DOMAIN log |->
        IF k \in StatKeys THEN Append(log[k], Stat(fold, part, a, b)) ELSE log[k]]

\* calculate_patients_label yields one value per run of equal patient ids.
PatientRuns(patients) ==
    {k \in 1..Len(patients) : k = 1 \/ patients[k] # patients[k - 1]}

CVInit ==
    /\ cv_pc = "start"
    /\ \E starts \in CVDatasets : patients_whole = PatientsOf(starts)
    /\ num_patients = NumDistinct(patients_whole)
    /\ patient_level_cv \in BOOLEAN
    /\ num_folds = 0
    /\ folds_indices = << >>
    /\ fold_iter = 0
    /\ i = 0
    /\ idx0 = 0
    /\ idx1 = 0
    /\ x_train_cv = << >>
    /\ x_test_cv = << >>
    /\ data_splits = << >>
    /\ all_data_log = EmptyLog(StatKeys \cup HistoryKeys)
    /\ tr_all_data_log = EmptyLog(StatKeys \cup HistoryKeys)
    /\ pat_all_data_log = EmptyLog(StatKeys \cup HistoryKeys \cup PatientKeys)
    /\ patient_splits = << >>
    /\ rocs = << >>

\* Lines 466-499: the number of folds and, at patient level, the boundaries.
CVSetup ==
    /\ cv_pc = "start"
    /\ num_folds' = IF patient_level_cv THEN NumFoldsPatientLevel
                                        ELSE NumFoldsSliceLevel
    /\ folds_indices' = IF patient_level_cv
                        THEN FoldsIndices(patients_whole, num_patients)
                        ELSE << >>
    /\ cv_pc' = "loop"
    /\ UNCHANGED << patients_whole, num_patients, patient_level_cv, fold_iter, i,
                    idx0, idx1, x_train_cv, x_test_cv, data_splits, all_data_log,
                    tr_all_data_log, pat_all_data_log, patient_splits, rocs >>
    /\ UNCHANGED << save_vars, trim_vars, g2d_vars, aux_vars >>

\* Lines 501-518: range(num_folds) hands out the next i and the fold is split.
\* folds_indices[i + 1] raises IndexError when the list is too short.
CVSplit ==
    /\ cv_pc = "loop"
    /\ fold_iter < num_folds
    /\ i' = fold_iter
    /\ fold_iter' = fold_iter + 1
    /\ IF patient_level_cv /\ fold_iter + 2 > Len(folds_indices)
       THEN /\ cv_pc' = "IndexError"
            /\ UNCHANGED << idx0, idx1, x_train_cv, x_test_cv, data_splits >>
       ELSE LET n == Len(patients_whole)
                a == IF patient_level_cv THEN folds_indices[fold_iter + 1]
                                         ELSE SliceIdx(fold_iter, n)
                b == IF patient_level_cv THEN folds_indices[fold_iter + 2]
                                         ELSE SliceIdx(fold_iter + 1, n)
            IN  /\ idx0' = a
                /\ idx1' = b
                /\ data_splits' = IF fold_iter # 0 THEN Append(data_splits, a)
                                                   ELSE data_splits
                /\ x_train_cv' = TrainIndices(n, a, b)
                /\ x_test_cv' = TestIndices(n, a, b)
                /\ cv_pc' = "train"
    /\ UNCHANGED << patients_whole, num_patients, patient_level_cv, num_folds,
                    folds_indices, all_data_log, tr_all_data_log,
                    pat_all_data_log, patient_splits, rocs >>
    /\ UNCHANGED << save_vars, trim_vars, g2d_vars, aux_vars >>

\* Lines 520-598: the model of fold i is trained and the three logs and rocs
\* get its statistics.  With an empty test set calculate_patients_label (line
\* 395) indexes an empty list, unless a library call has raised before it.
\* The ROC loop reuses the name i and leaves it at 1.
CVTrainAndLog ==
    /\ cv_pc = "train"
    /\ IF x_test_cv = << >>
       THEN /\ cv_pc' = "IndexError"
            /\ UNCHANGED << i, all_data_log, tr_all_data_log, pat_all_data_log,
                            patient_splits, rocs >>
       ELSE LET patients_test_cv ==
                    [k \in 1..Len(x_test_cv) |-> patients_whole[x_test_cv[k] + 1]]
                runs == PatientRuns(patients_test_cv)
                history == [k \in DOMAIN all_data_log |->
                              IF k \in HistoryKeys
                              THEN Append(all_data_log[k], Stat(i, "train", idx0, idx1))
                              ELSE all_data_log[k]]
                percentages == [k \in DOMAIN pat_all_data_log |->
                                  IF k \in PatientKeys
                                  THEN pat_all_data_log[k] \o
                                       [r \in 1..Cardinality(runs) |-> i]
                                  ELSE pat_all_data_log[k]]
            IN  /\ all_data_log' = AppendStats(history, i, "test", idx0, idx1)
                /\ tr_all_data_log' = AppendStats(tr_all_data_log, i, "train", idx0, idx1)
                /\ pat_all_data_log' = AppendStats(percentages, i, "test", idx0, idx1)
                /\ patient_splits' = Append(patient_splits, Cardinality(runs))
                /\ rocs' = Append(rocs, Stat(i, "test", idx0, idx1))
                /\ i' = 1
                /\ cv_pc' = "loop"
    /\ UNCHANGED << patients_whole, num_patients, patient_level_cv, num_folds,
                    folds_indices, fold_iter, idx0, idx1, x_train_cv, x_test_cv,
                    data_splits >>
    /\ UNCHANGED << save_vars, trim_vars, g2d_vars, aux_vars >>

\* Lines 600-731: range(num_folds) is exhausted, the figures are drawn and the
\* logs are returned.
CVReturn ==
    /\ cv_pc = "loop"
    /\ fold_iter = num_folds
    /\ cv_pc' = "done"
    /\ UNCHANGED << patients_whole, num_patients, patient_level_cv, num_folds,
                    folds_indices, fold_iter, i, idx0, idx1, x_train_cv,
                    x_test_cv, data_splits, all_data_log, tr_all_data_log,
                    pat_all_data_log, patient_splits, rocs >>
    /\ UNCHANGED << save_vars, trim_vars, g2d_vars, aux_vars >>

CVNext == CVSetup \/ CVSplit \/ CVTrainAndLog \/ CVReturn

\* ================================================== load_organized_dataset

\* The keys an .npz file may hold, and the pickles beside the two sets.
NpzKeys == {"x", "y", "arr_0", "arr_1"}
PickleNames == << "training_set_patients", "test_set_patients",
                 "training_set_masks", "test_set_masks" >>

\* What is stored in a file under a key (for a pickle: under "").
Content(file, key) == << file, key >>

\* An .npz file, or the lack of it.
Npz(exists, keys) == [exists |-> exists, keys |-> keys]
NpzFiles == {Npz(FALSE, {})} \cup {Npz(TRUE, keys) : keys \in SUBSET NpzKeys}

\* f[key] for each of the keys wanted, in order: the arrays, or KeyError at
\* the first key the file does not hold.
Lookup(file, npz, wanted) ==
    IF \A k \in 1..Len(wanted) : wanted[k] \in npz.keys
    THEN [raised |-> "", arrays |-> [k \in 1..Len(wanted) |-> Content(file, wanted[k])]]
    ELSE [raised |-> "KeyError", arrays |-> << >>]

\* The arrays taken key by key: each from its own key when the file holds
\* it, and from its arr_ key otherwise.
ReadArrays_KeyByKey(file, npz) ==
    LET take(key, other) == IF key \in npz.keys THEN key ELSE other
    IN  Lookup(file, npz, << take("x", "arr_0"), take("y", "arr_1") >>)

\* Lines 322-327 (and 330-335): x and y of a loaded file; after a KeyError
\* both come from arr_0 and arr_1.
ReadArrays(file, npz) ==
    LET named == Lookup(file, npz, << "x", "y" >>)
    IN  IF named.raised = "KeyError"
        THEN Lookup(file, npz, << "arr_0", "arr_1" >>)
        ELSE named

LoadInit ==
    /\ lo_pc = "call"
    /\ lo_folder \in [training_set : NpzFiles, test_set : NpzFiles,
                       pickles : SUBSET Range(PickleNames)]
    /\ train_arrays = << >>
    /\ test_arrays = << >>
    /\ pickles = << >>
    /\ lo_returned = << >>

\* Lines 321-328: np.load of training_set.npz and its two arrays.
LoadTrainingSet ==
    /\ lo_pc = "call"
    /\ LET read == ReadArrays("training_set", lo_folder.training_set)
       IN  IF ~lo_folder.training_set.exists
           THEN lo_pc' = "FileNotFoundError" /\ UNCHANGED train_arrays
           ELSE IF read.raised # ""
           THEN lo_pc' = read.raised /\ UNCHANGED train_arrays
           ELSE lo_pc' = "training_set_loaded" /\ train_arrays' = read.arrays
    /\ UNCHANGED << lo_folder, test_arrays, pickles, lo_returned >>
    /\ UNCHANGED << cv_vars, save_vars, trim_vars, g2d_vars, label_vars,
                    script_vars,
                    bucket_vars, gen_vars >>

\* Lines 329-336: the same for test_set.npz.
LoadTestSet ==
    /\ lo_pc = "training_set_loaded"
    /\ LET read == ReadArrays("test_set", lo_folder.test_set)
       IN  IF ~lo_folder.test_set.exists
           THEN lo_pc' = "FileNotFoundError" /\ UNCHANGED test_arrays
           ELSE IF read.raised # ""
           THEN lo_pc' = read.raised /\ UNCHANGED test_arrays
           ELSE lo_pc' = "test_set_loaded" /\ test_arrays' = read.arrays
    /\ UNCHANGED << lo_folder, train_arrays, pickles, lo_returned >>
    /\ UNCHANGED << cv_vars, save_vars, trim_vars, g2d_vars, label_vars,
                    script_vars,
                    bucket_vars, gen_vars >>

\* Lines 337-346: the four pickles are opened in turn, and the four pairs
\* returned.
LoadPickles ==
    /\ lo_pc = "test_set_loaded"
    /\ LET loaded == [k \in 1..Len(PickleNames) |-> Content(PickleNames[k], "")]
       IN  IF \E k \in 1..Len(PickleNames) : PickleNames[k] \notin lo_folder.pickles
           THEN /\ lo_pc' = "FileNotFoundError"
                /\ UNCHANGED << pickles, lo_returned >>
           ELSE /\ lo_pc' = "returned"
                /\ pickles' = loaded
                /\ lo_returned' = << train_arrays, test_arrays,
                                     << loaded[1], loaded[3] >>,
                                     << loaded[2], loaded[4] >> >>
    /\ UNCHANGED << lo_folder, train_arrays, test_arrays >>
    /\ UNCHANGED << cv_vars, save_vars, trim_vars, g2d_vars, label_vars,
                    script_vars,
                    bucket_vars, gen_vars >>

LoadNext == LoadTrainingSet \/ LoadTestSet \/ LoadPickles

\* ============================================ the script of save_datasets.py

\* Most entries of a loaded list.
MaxListLen == 3

\* The lengths of x, y, patients and masks.
Lists(x, y, p, m) == [x |-> x, y |-> y, patients |-> p, masks |-> m]

\* The lengths compared as if line 743 were missing.
LengthsAgree_XAndY(lists) == lists.x = lists.y

\* Lines 742-743: both assert statements pass.
LengthsAgree(lists) == lists.x = lists.y /\ lists.x = lists.patients

ScriptInit ==
    /\ sc_pc = "start"
    /\ sc_files \in [x : 0..MaxListLen, y : 0..MaxListLen,
                      patients : 0..MaxListLen, masks : 0..MaxListLen]
    /\ sc_lists = Lists(0, 0, 0, 0)
    /\ sc_old_format \in BOOLEAN
    /\ sc_called = << >>

\* Lines 728-740: the pickles are loaded; masks only if not old_format.
LoadLists ==
    /\ sc_pc = "start"
    /\ sc_pc' = "loaded"
    /\ sc_lists' = Lists(sc_files.x, sc_files.y, sc_files.patients,
                         IF sc_old_format THEN 0 ELSE sc_files.masks)
    /\ UNCHANGED << sc_files, sc_old_format, sc_called >>
    /\ UNCHANGED << cv_vars, save_vars, trim_vars, g2d_vars, label_vars,
                    load_vars,
                    bucket_vars, gen_vars >>

\* Lines 741-743: the two assert statements.
CheckLengths ==
    /\ sc_pc = "loaded"
    /\ sc_pc' = IF LengthsAgree(sc_lists) THEN "checked" ELSE "AssertionError"
    /\ UNCHANGED << sc_files, sc_lists, sc_old_format, sc_called >>
    /\ UNCHANGED << cv_vars, save_vars, trim_vars, g2d_vars, label_vars,
                    load_vars,
                    bucket_vars, gen_vars >>

\* Lines 744-763: save_data or improved_save_data is called with the lists.
CallSave ==
    /\ sc_pc = "checked"
    /\ sc_pc' = "called"
    /\ sc_called' = IF sc_old_format
                    THEN << "save_data", sc_lists.x, sc_lists.y, sc_lists.patients >>
                    ELSE << "improved_save_data", sc_lists.x, sc_lists.y,
                            sc_lists.patients, sc_lists.masks >>
    /\ UNCHANGED << sc_files, sc_lists, sc_old_format >>
    /\ UNCHANGED << cv_vars, save_vars, trim_vars, g2d_vars, label_vars,
                    load_vars,
                    bucket_vars, gen_vars >>

ScriptNext == LoadLists \/ CheckLengths \/ CallSave

\* ========================================================= calls of get_bucket

\* Most objects in a bucket.
MaxBucket == 5

\* The ratios of the docstring (0.5 and 0.66) and of improved_save_data.
BucketRatios == {<< 1, 2 >>, << 66, 100 >>, RatioUntrimmed, RatioTrimmed}

BucketInit ==
    /\ gb_pc = "call"
    /\ gb_bucket0 \in 0..MaxBucket
    /\ gb_bucket1 \in 0..MaxBucket
    /\ gb_ratio \in BucketRatios
    /\ gb_returned = 0

CallGetBucket ==
    /\ gb_pc = "call"
    /\ gb_pc' = "returned"
    /\ gb_returned' = GetBucket(gb_bucket0, gb_bucket1, gb_ratio)
    /\ UNCHANGED << gb_bucket0, gb_bucket1, gb_ratio >>
    /\ UNCHANGED << cv_vars, save_vars, trim_vars, g2d_vars, label_vars,
                    load_vars,
                    script_vars, gen_vars >>

BucketNext == CallGetBucket

\* =============================================================== generate_data

\* Most samples asked for, and the largest number of the first patient.
MaxSamples == 5
MaxFirstPatient == 2

\* "{:08d}".format(n) for n >= 0: the digits, padded with zeros to 8.
FormatPatient(n) ==
    LET d == Digits(n)
    IN  IF Len(d) >= 8 THEN d ELSE [k \in 1..(8 - Len(d)) |-> 0] \o d

\* What get_lumpy_image and generate_mask hand back in iteration sample.
LumpyImage(sample) == [sample |-> sample, label |-> 0, kind |-> "image"]
LumpyMask(sample) == [sample |-> sample, label |-> 0, kind |-> "mask"]

\* volumes, labels, patients, masks.
GenLists(v, l, p, m) == [volumes |-> v, labels |-> l, patients |-> p, masks |-> m]

\* The iteration with a sample of label 1 appended after that of label 0.
AppendSamples_BothLabels(lists, sample, counter) ==
    GenLists(lists.volumes \o << LumpyImage(sample), LumpyImage(sample) >>,
             lists.labels \o << 0, 1 >>,
             lists.patients \o << FormatPatient(counter), FormatPatient(counter + 1) >>,
             lists.masks \o << LumpyMask(sample), LumpyMask(sample) >>)

\* Lines 124-131: the image, its mask, the label 0 and the patient id of one
\* iteration are appended.
AppendSamples(lists, sample, counter) ==
    GenLists(Append(lists.volumes, LumpyImage(sample)),
             Append(lists.labels, 0),
             Append(lists.patients, FormatPatient(counter)),
             Append(lists.masks, LumpyMask(sample)))

GenInit ==
    /\ gn_pc = "call"
    /\ num_samples \in 0..MaxSamples
    /\ number_first_patient \in 0..MaxFirstPatient
    /\ show_images \in BOOLEAN
    /\ gn_i = 0
    /\ patient_counter = 0
    /\ gn_lists = GenLists(<< >>, << >>, << >>, << >>)
    /\ gn_saved = << >>

\* Lines 107-121: the empty lists and the counter.
GenStart ==
    /\ gn_pc = "call"
    /\ gn_pc' = "loop"
    /\ patient_counter' = number_first_patient
    /\ gn_lists' = GenLists(<< >>, << >>, << >>, << >>)
    /\ UNCHANGED << num_samples, number_first_patient, show_images, gn_i, gn_saved >>
    /\ UNCHANGED << cv_vars, save_vars, trim_vars, g2d_vars, label_vars,
                    load_vars,
                    script_vars, bucket_vars >>

\* Lines 122-161: one iteration.  With show_images the mask shown is
\* masks[-2], which raises IndexError while masks holds one mask.
GenerateSample ==
    /\ gn_pc = "loop"
    /\ gn_i < num_samples
    /\ gn_lists' = AppendSamples(gn_lists, gn_i, patient_counter)
    /\ patient_counter' = patient_counter + 1
    /\ IF show_images /\ Len(gn_lists'.masks) < 2
       THEN gn_pc' = "IndexError" /\ UNCHANGED gn_i
       ELSE gn_pc' = "loop" /\ gn_i' = gn_i + 1
    /\ UNCHANGED << num_samples, number_first_patient, show_images, gn_saved >>
    /\ UNCHANGED << cv_vars, save_vars, trim_vars, g2d_vars, label_vars,
                    load_vars,
                    script_vars, bucket_vars >>

\* Lines 163-200: the four lists are pickled, then the statistics are
\* written; with no sample name_stats is unbound (UnboundLocalError when
\* statistics.csv is new) and the mean of nothing is not a list (TypeError).
SaveLists ==
    /\ gn_pc = "loop"
    /\ gn_i = num_samples
    /\ gn_saved' = [images |-> gn_lists.volumes, labels |-> gn_lists.labels,
                    patients |-> gn_lists.patients, masks |-> gn_lists.masks]
    /\ IF num_samples = 0
       THEN gn_pc' \in {"UnboundLocalError", "TypeError"}
       ELSE gn_pc' = "saved"
    /\ UNCHANGED << num_samples, number_first_patient, show_images, gn_i,
                    patient_counter, gn_lists >>
    /\ UNCHANGED << cv_vars, save_vars, trim_vars, g2d_vars, label_vars,
                    load_vars,
                    script_vars, bucket_vars >>

GenNext == GenStart \/ GenerateSample \/ SaveLists

\* ============================================ calls of calculate_patients_label

\* Most slices of a call.
MaxLabelSlices == 4

\* The labels np.argmax yields for the two classes.
SliceLabels == {0, 1}

\* Patient ids: two names, and the empty string prev_patient starts with.
LabelPatients == {"", "A", "B"}

\* Line 387: the label of one more slice joins the last entry.
AddLabel(percentages, label) ==
    [percentages EXCEPT ![Len(percentages)] = << @[1] + label * @[2], @[2] >>]

\* The last entry stays the sum of the labels.
DivideLast_KeepsSum(percentages, n) == percentages

\* Lines 391 and 395: the last entry is divided by the number of slices.
DivideLast(percentages, n) ==
    [percentages EXCEPT ![Len(percentages)] = << @[1], @[2] * n >>]

\* The state after lines 382-384.
LabelInit ==
    /\ cl_pc = "loop"
    /\ \E n \in 0..MaxLabelSlices :
        /\ slices_labels \in [1..n -> SliceLabels]
        /\ cl_patients \in [1..n -> LabelPatients]
    /\ cl_i = 0
    /\ patient_percentages = << >>
    /\ cl_prev_patient = ""
    /\ cl_num_slices = 0
    /\ cl_returned = << >>

\* One pass of the loop of lines 385-394.  Line 387 indexes the empty list
\* when the first patient id equals the initial prev_patient.
LabelStep ==
    /\ cl_pc = "loop"
    /\ cl_i < Len(slices_labels) /\ cl_i < Len(cl_patients)
    /\ LET label == slices_labels[cl_i + 1]
           patient == cl_patients[cl_i + 1]
       IN  IF patient = cl_prev_patient
           THEN IF patient_percentages = << >>
                THEN /\ cl_pc' = "IndexError"
                     /\ UNCHANGED << cl_i, patient_percentages, cl_prev_patient,
                                     cl_num_slices >>
                ELSE /\ patient_percentages' = AddLabel(patient_percentages, label)
                     /\ cl_num_slices' = cl_num_slices + 1
                     /\ cl_prev_patient' = patient
                     /\ cl_i' = cl_i + 1
                     /\ UNCHANGED cl_pc
           ELSE /\ patient_percentages' =
                    Append(IF Len(patient_percentages) > 0
                           THEN DivideLast(patient_percentages, cl_num_slices)
                           ELSE patient_percentages,
                           << label, 1 >>)
                /\ cl_num_slices' = 1
                /\ cl_prev_patient' = patient
                /\ cl_i' = cl_i + 1
                /\ UNCHANGED cl_pc
    /\ UNCHANGED << slices_labels, cl_patients, cl_returned >>
    /\ UNCHANGED << cv_vars, save_vars, trim_vars, g2d_vars, load_vars,
                    script_vars, bucket_vars, gen_vars >>

\* Lines 395-396, once zip is exhausted; line 395 indexes the empty list when
\* there was no slice.
LabelReturn ==
    /\ cl_pc = "loop"
    /\ ~ (cl_i < Len(slices_labels) /\ cl_i < Len(cl_patients))
    /\ IF patient_percentages = << >>
       THEN /\ cl_pc' = "IndexError"
            /\ UNCHANGED << patient_percentages, cl_returned >>
       ELSE /\ cl_pc' = "returned"
            /\ patient_percentages' = DivideLast(patient_percentages, cl_num_slices)
            /\ cl_returned' = patient_percentages'
    /\ UNCHANGED << slices_labels, cl_patients, cl_i, cl_prev_patient, cl_num_slices >>
    /\ UNCHANGED << cv_vars, save_vars, trim_vars, g2d_vars, load_vars,
                    script_vars, bucket_vars, gen_vars >>

LabelNext == LabelStep \/ LabelReturn

\* ------------------------------------------------------------ specifications

\* The part of the state that belongs to a program that is not running.
CVIdle ==
    /\ cv_pc = "idle" /\ patients_whole = << >> /\ num_patients = 0
    /\ patient_level_cv = FALSE /\ num_folds = 0 /\ folds_indices = << >>
    /\ fold_iter = 0 /\ i = 0 /\ idx0 = 0 /\ idx1 = 0
    /\ x_train_cv = << >> /\ x_test_cv = << >> /\ data_splits = << >>
    /\ all_data_log = << >> /\ tr_all_data_log = << >> /\ pat_all_data_log = << >>
    /\ patient_splits = << >> /\ rocs = << >>
SaveIdle ==
    /\ sv_pc = "idle" /\ given = EmptyDataSet /\ trim_data = FALSE
    /\ data_interpolation = FALSE /\ convert_to_2d = FALSE /\ data = EmptyDataSet
    /\ medians_by_label = << >> /\ results = << >>
    /\ train_to_total_ratio = << 0, 1 >> /\ train_nums = ZeroNums
    /\ test_nums = ZeroNums /\ train_set = EmptyDataSet /\ test_set = EmptyDataSet
    /\ median_indices = << >> /\ pos = 0 /\ saved = << >>
    /\ plot_data = FALSE /\ skip_dialog = FALSE /\ resampling = FALSE
    /\ dataset_name = << >> /\ folders = {} /\ files = << >>
    /\ prompts = << >> /\ answer = << >>
TrimIdle ==
    /\ te_pc = "idle" /\ te_array_sort = << >> /\ te_sort_method = "" /\ te_trim_pos = << >>
    /\ te_set = EmptyDataSet /\ te_returned = "None"
G2DIdle ==
    /\ g2_pc = "idle" /\ g2_samples = EmptyDataSet /\ g2_rotate_data = FALSE
    /\ g2_returned = EmptyDataSet

LoadIdle ==
    /\ lo_pc = "idle" /\ lo_folder = << >> /\ train_arrays = << >>
    /\ test_arrays = << >> /\ pickles = << >> /\ lo_returned = << >>
ScriptIdle ==
    /\ sc_pc = "idle" /\ sc_files = Lists(0, 0, 0, 0) /\ sc_lists = Lists(0, 0, 0, 0)
    /\ sc_old_format = FALSE /\ sc_called = << >>
BucketIdle ==
    /\ gb_pc = "idle" /\ gb_bucket0 = 0 /\ gb_bucket1 = 0 /\ gb_ratio = << 0, 1 >>
    /\ gb_returned = 0
GenIdle ==
    /\ gn_pc = "idle" /\ num_samples = 0 /\ number_first_patient = 0
    /\ show_images = FALSE /\ gn_i = 0 /\ patient_counter = 0
    /\ gn_lists = GenLists(<< >>, << >>, << >>, << >>) /\ gn_saved = << >>
LabelIdle ==
    /\ cl_pc = "idle" /\ slices_labels = << >> /\ cl_patients = << >> /\ cl_i = 0
    /\ patient_percentages = << >> /\ cl_prev_patient = "" /\ cl_num_slices = 0
    /\ cl_returned = << >>
AuxIdleButLabel == LoadIdle /\ ScriptIdle /\ BucketIdle /\ GenIdle
AuxIdle == AuxIdleButLabel /\ LabelIdle

\* improved_save_data.
Init == SaveInit /\ CVIdle /\ TrimIdle /\ G2DIdle /\ AuxIdle
Next == SaveNext
Spec == Init /\ [][Next]_vars

\* do_cross_validation.
InitCV == CVInit /\ SaveIdle /\ TrimIdle /\ G2DIdle /\ AuxIdle
SpecCV == InitCV /\ [][CVNext]_vars

\* trim_edges.
InitTrim == TrimInit /\ CVIdle /\ SaveIdle /\ G2DIdle /\ AuxIdle
SpecTrim == InitTrim /\ [][TrimNext]_vars

\* generate_2D_dataset.
Init2D == G2DInit /\ CVIdle /\ SaveIdle /\ TrimIdle /\ AuxIdle
Spec2D == Init2D /\ [][G2DNext]_vars

\* load_organized_dataset.
InitLoad ==
    /\ LoadInit /\ CVIdle /\ SaveIdle /\ TrimIdle /\ G2DIdle
    /\ ScriptIdle /\ BucketIdle /\ GenIdle /\ LabelIdle
SpecLoad == InitLoad /\ [][LoadNext]_vars

\* The script of save_datasets.py.
InitScript ==
    /\ ScriptInit /\ CVIdle /\ SaveIdle /\ TrimIdle /\ G2DIdle
    /\ LoadIdle /\ BucketIdle /\ GenIdle /\ LabelIdle
SpecScript == InitScript /\ [][ScriptNext]_vars

\* get_bucket.
InitBucket ==
    /\ BucketInit /\ CVIdle /\ SaveIdle /\ TrimIdle /\ G2DIdle
    /\ LoadIdle /\ ScriptIdle /\ GenIdle /\ LabelIdle
SpecBucket == InitBucket /\ [][BucketNext]_vars

\* generate_data.
InitGen ==
    /\ GenInit /\ CVIdle /\ SaveIdle /\ TrimIdle /\ G2DIdle
    /\ LoadIdle /\ ScriptIdle /\ BucketIdle /\ LabelIdle
SpecGen == InitGen /\ [][GenNext]_vars

\* calculate_patients_label.
InitLabel == LabelInit /\ CVIdle /\ SaveIdle /\ TrimIdle /\ G2DIdle /\ AuxIdleButLabel
SpecLabel == InitLabel /\ [][LabelNext]_vars

\* ----------------------------------------------- claims on cross validation

\* The test range of fold f as lines 505-510 compute it.
FoldRange(f) ==
    IF patient_level_cv
    THEN << folds_indices[f + 1], folds_indices[f + 2] >>
    ELSE << SliceIdx(f, Len(patients_whole)), SliceIdx(f + 1, Len(patients_whole)) >>

\* The 0-based indices of the slices of patient p.
SlicesOf(p) == {k - 1 : k \in {j \in 1..Len(patients_whole) : patients_whole[j] = p}}

\* C1: at patient level every boundary stored in folds_indices is 0, the
\* length of the dataset or an index whose patient differs from the one
\* before it; no patient has slices in two of the ranges between consecutive
\* boundaries; and in a fold that is being run no patient of the test set has
\* a slice in the training set.
C1_FoldBoundariesAtPatientChange ==
    (patient_level_cv /\ cv_pc # "start") =>
        LET n == Len(patients_whole)
            ranges == 1..(Len(folds_indices) - 1)
        IN  /\ \A k \in 1..Len(folds_indices) :
                 LET f == folds_indices[k]
                 IN  \/ f = 0
                     \/ f = n
                     \/ (0 < f /\ f < n /\ patients_whole[f + 1] # patients_whole[f])
            /\ \A p \in Range(patients_whole) :
                 Cardinality({r \in ranges :
                     \E s \in SlicesOf(p) :
                         folds_indices[r] <= s /\ s < folds_indices[r + 1]}) = 1
            /\ cv_pc = "train" =>
                 \A a \in Range(x_test_cv), b \in Range(x_train_cv) :
                     patients_whole[a + 1] # patients_whole[b + 1]

\* C1 witness: folds of two patients each, and a patient of two slices whose
\* second slice is the last one before a boundary.
C1_Witness ==
    /\ patient_level_cv
    /\ cv_pc = "train"
    /\ num_patients > NumFoldsPatientLevel
    /\ \E k \in 2..(Len(folds_indices) - 1) :
         LET f == folds_indices[k]
         IN  f >= 2 /\ patients_whole[f] = patients_whole[f - 1]

\* C2: the test ranges of the folds run so far follow one another from index
\* 0 without gap or overlap; the fold being run has as test set exactly the
\* indices idx0..idx1-1 and as training set exactly the others, in order;
\* at patient level the ranges between consecutive boundaries tile the whole
\* dataset; and once all folds have run there are num_folds ranges and the
\* last one ends at the end of the dataset.
C2_FoldsPartitionDataset ==
    LET n == Len(patients_whole)
        all == 0..(n - 1)
    IN  /\ \A k \in 1..Len(rocs) :
             /\ rocs[k].idx0 = (IF k = 1 THEN 0 ELSE rocs[k - 1].idx1)
             /\ rocs[k].idx0 <= rocs[k].idx1
             /\ rocs[k].idx1 <= n
             /\ << rocs[k].idx0, rocs[k].idx1 >> = FoldRange(k - 1)
        /\ cv_pc = "train" =>
             /\ << idx0, idx1 >> = FoldRange(i)
             /\ idx0 = (IF rocs = << >> THEN 0 ELSE rocs[Len(rocs)].idx1)
             /\ Range(x_test_cv) = {k \in all : idx0 <= k /\ k < idx1}
             /\ Range(x_train_cv) = all \ Range(x_test_cv)
             /\ Len(x_train_cv) + Len(x_test_cv) = n
             /\ \A k \in 1..(Len(x_train_cv) - 1) : x_train_cv[k] < x_train_cv[k + 1]
        /\ (patient_level_cv /\ cv_pc # "start") =>
             /\ folds_indices[1] = 0
             /\ folds_indices[Len(folds_indices)] = n
             /\ \A k \in 1..(Len(folds_indices) - 1) :
                    folds_indices[k] <= folds_indices[k + 1]
        /\ cv_pc = "done" =>
             /\ Len(rocs) = num_folds
             /\ rocs[num_folds].idx1 = n

\* C2 witness: a patient-level run over more than eleven patients, one of
\* them with two slices, has completed all its folds.
C2_Witness ==
    /\ cv_pc = "done"
    /\ patient_level_cv
    /\ num_patients > NumFoldsPatientLevel
    /\ Len(patients_whole) > num_patients

\* ---------------------------------------------------------------- C3

\* Whether patient j of a dataset is not ignored.
NotIgnored(set, j) ==
    NumSlices(set.x[j]) >= MinSlices /\ MaskExtent(set.masks[j]) >= MinSlices

\* The four lists of a set have one length, and position k of each of them
\* holds what the dataset being split holds for one patient.
BelongsToOnePatient(set) ==
    /\ Len(set.x) = Len(set.y)
    /\ Len(set.x) = Len(set.patients)
    /\ Len(set.x) = Len(set.masks)
    /\ \A k \in 1..Len(set.x) : \E j \in 1..Len(data.x) :
          /\ set.x[k] = data.x[j]
          /\ set.y[k] = data.y[j]
          /\ set.patients[k] = data.patients[j]
          /\ set.masks[k] = data.masks[j]

\* How many positions of the two sets hold patient j.
Placements(j) ==
    Cardinality({k \in 1..Len(train_set.patients) :
                    train_set.patients[k] = data.patients[j]})
    + Cardinality({k \in 1..Len(test_set.patients) :
                    test_set.patients[k] = data.patients[j]})

SplitStarted == sv_pc \in {"distribute", "distributed", "split", "confirmed",
                           "training_set_saved", "done"}
SplitComplete == sv_pc \in {"distributed", "split", "confirmed", "training_set_saved", "done"}
Rebalanced == sv_pc \in {"split", "confirmed", "training_set_saved", "done"}

\* C3: throughout the split the four lists of the training set and of the
\* test set are aligned, each position holding one patient of the dataset; and
\* once every patient is distributed, also after the rebalancing move, each
\* patient that is not ignored is in exactly one of the two sets, and no
\* ignored patient is in either.
C3_EveryPatientInExactlyOneSet ==
    /\ SplitStarted => BelongsToOnePatient(train_set) /\ BelongsToOnePatient(test_set)
    /\ SplitComplete =>
          \A j \in 1..Len(data.x) :
              Placements(j) = IF NotIgnored(data, j) THEN 1 ELSE 0

\* A split whose rebalancing moved a patient (the counters no longer add up
\* to the training set), of a dataset with an ignored patient.
C3_Witness ==
    /\ sv_pc = "split"
    /\ \E j \in 1..Len(data.x) : ~NotIgnored(data, j)
    /\ Len(train_set.x) # train_nums[0][0] + train_nums[0][1]
                          + train_nums[1][0] + train_nums[1][1]
    /\ train_set.x # << >>
    /\ test_set.x # << >>

\* ---------------------------------------------------------------- C4

LabelCount(set, label) == Cardinality({k \in 1..Len(set.y) : set.y[k] = label})

\* C4: after the rebalancing move, for each label the number of its patients
\* in the training set is within one patient of train_to_total_ratio times
\* the number of its patients in both sets.
C4_SamePercentageOfEachLabel ==
    Rebalanced =>
        \A label \in Labels :
            RatioDistance(LabelCount(train_set, label),
                          LabelCount(train_set, label) + LabelCount(test_set, label),
                          train_to_total_ratio) <= train_to_total_ratio[2]

\* ---------------------------------------------------------------- C5

\* The patients of a set with the given label on the given side of the
\* median of that label: 0 is strictly below, 1 strictly above.
GroupCount(set, label, group) ==
    Cardinality({k \in 1..Len(set.y) :
        /\ set.y[k] = label
        /\ IF group = 0 THEN 2 * NumSlices(set.x[k]) < medians_by_label[label]
           ELSE 2 * NumSlices(set.x[k]) > medians_by_label[label]})

\* C5: after every placement of the first loop, for each label and each side
\* of its median, the counters are the numbers of that group's patients in the
\* two sets, and the number in the training set is within 1 of
\* train_to_total_ratio times the number placed so far.
C5_GroupsWithinOneOfRatio ==
    sv_pc = "distribute" =>
        \A label \in Labels, group \in {0, 1} :
            /\ train_nums[group][label] = GroupCount(train_set, label, group)
            /\ test_nums[group][label] = GroupCount(test_set, label, group)
            /\ RatioDistance(GroupCount(train_set, label, group),
                             GroupCount(train_set, label, group)
                             + GroupCount(test_set, label, group),
                             train_to_total_ratio) <= train_to_total_ratio[2]

\* The first loop with a group that has patients in both sets.
C5_Witness ==
    /\ sv_pc = "distribute"
    /\ \E label \in Labels, group \in {0, 1} :
          /\ GroupCount(train_set, label, group) >= 2
          /\ GroupCount(test_set, label, group) >= 1

\* ---------------------------------------------------------------- C6

\* C6: a call of trim_edges with one sort value per sample retains exactly
\* n - round(n * (1 - hi + lo)) of the n samples.
C6_RetainsRequestedPercentile ==
    (te_pc = "returned" /\ te_sort_method \in SortMethods) =>
        Len(te_returned.x) =
            Len(te_array_sort)
            - RoundHalfEven(Len(te_array_sort)
                            * (100 - te_trim_pos[2] + te_trim_pos[1]), 100)

\* ---------------------------------------------------------------- C7

TumorSize(j) == MaskSize(given.masks[j])

\* The patients of the input that are still in the dataset.
KeptPatients == {j \in 1..Len(given.patients) :
                    \E k \in 1..Len(data.patients) :
                        data.patients[k] = given.patients[j]}

\* C7: with trim_data, the dataset that is split is the input without the 10%
\* of its patients with the smallest tumours and the 10% with the largest, in
\* the input's order, and without any other loss.
C7_TrimRemovesTenPercentEachSide ==
    (trim_data /\ sv_pc \in {"trimmed", "interpolated", "distribute", "distributed",
                             "split", "confirmed", "training_set_saved", "done"}) =>
        LET n == Len(given.patients)
            tenth == RoundHalfEven(n * 10, 100)
            removed == (1..n) \ KeptPatients
            kept == SortedSeq(KeptPatients)
        IN  /\ data.patients = [k \in 1..Len(kept) |-> given.patients[kept[k]]]
            /\ data.y = [k \in 1..Len(kept) |-> given.y[kept[k]]]
            /\ data.masks = [k \in 1..Len(kept) |-> given.masks[kept[k]]]
            /\ \E smallest \in SUBSET removed :
                  /\ Cardinality(smallest) = tenth
                  /\ Cardinality(removed \ smallest) = tenth
                  /\ \A a \in smallest, b \in (1..n) \ smallest :
                        TumorSize(a) <= TumorSize(b)
                  /\ \A a \in removed \ smallest, b \in KeptPatients \cup smallest :
                        TumorSize(a) >= TumorSize(b)

\* ---------------------------------------------------------------- C8

\* The number of windows of the volumes before volume v.
RECURSIVE WindowsBefore(_, _)
WindowsBefore(set, v) ==
    IF v <= 1 THEN 0
    ELSE WindowsBefore(set, v - 1)
         + (IF NumSlices(set.x[v - 1]) > 2 THEN NumSlices(set.x[v - 1]) - 2 ELSE 0)

\* C8: a call without rotations returns, for each volume of Z slices in input
\* order, max(0, Z - 2) samples, the idx-th of them being slices idx, idx + 1
\* and idx + 2 of that volume, and nothing else.
C8_EmitsSlidingWindows ==
    (g2_pc # "call" /\ ~g2_rotate_data) =>
        /\ g2_pc = "returned"
        /\ Len(g2_returned.x) = WindowsBefore(g2_samples, Len(g2_samples.x) + 1)
        /\ \A v \in 1..Len(g2_samples.x) :
              \A idx \in 0..(NumSlices(g2_samples.x[v]) - 3) :
                  LET sample == g2_returned.x[WindowsBefore(g2_samples, v) + idx + 1]
                  IN  /\ sample.volume = g2_samples.x[v]
                      /\ sample.first = idx
                      /\ sample.rot = 0

\* C8 for the calls that return: without rotations the samples returned are
\* the sliding windows of the volumes, in input order.
C8_ReturnedSamplesAreSlidingWindows ==
    (g2_pc = "returned" /\ ~g2_rotate_data) =>
        /\ Len(g2_returned.x) = WindowsBefore(g2_samples, Len(g2_samples.x) + 1)
        /\ \A v \in 1..Len(g2_samples.x) :
              \A idx \in 0..(NumSlices(g2_samples.x[v]) - 3) :
                  g2_returned.x[WindowsBefore(g2_samples, v) + idx + 1]
                      = Window(g2_samples.x[v], 0, idx)

\* ---------------------------------------------------------------- C9

\* Sample k of the output was cut from volume j of the input and carries the
\* label and the same window of the mask of that volume.
CutFrom(k, j) ==
    /\ g2_returned.x[k].volume = g2_samples.x[j]
    /\ g2_returned.y[k] = g2_samples.y[j]
    /\ g2_returned.masks[k].mask = g2_samples.masks[j]
    /\ g2_returned.masks[k].first = g2_returned.x[k].first
    /\ g2_returned.masks[k].rot = g2_returned.x[k].rot
    /\ g2_returned.masks[k].len = MinSlices

EqualLengths ==
    /\ Len(g2_returned.x) = Len(g2_returned.y)
    /\ Len(g2_returned.x) = Len(g2_returned.patients)
    /\ Len(g2_returned.x) = Len(g2_returned.masks)

\* C9, as amended: the four outputs have equal length, and every sample
\* carries the label and the mask window of the volume it was cut from, and
\* that volume's patient id, followed by the angle of the rotation (90, 180
\* or 270) when the sample is a rotated copy.
C9_SamplesCarryTheirSource ==
    g2_pc = "returned" =>
        /\ EqualLengths
        /\ \A k \in 1..Len(g2_returned.x) : \E j \in 1..Len(g2_samples.x) :
              /\ CutFrom(k, j)
              /\ g2_returned.patients[k] =
                    IF g2_returned.x[k].rot = 0 THEN g2_samples.patients[j]
                    ELSE g2_samples.patients[j] \o Digits(90 * g2_returned.x[k].rot)

\* C9, as stated: every sample carries the patient id of its volume.
C9_SamplesCarryThePatientId ==
    g2_pc = "returned" =>
        /\ EqualLengths
        /\ \A k \in 1..Len(g2_returned.x) : \E j \in 1..Len(g2_samples.x) :
              /\ CutFrom(k, j)
              /\ g2_returned.patients[k] = g2_samples.patients[j]

\* Rotated samples of two volumes, one of them with several windows.
C9_Witness ==
    /\ g2_pc = "returned"
    /\ g2_rotate_data
    /\ \E k, m \in 1..Len(g2_returned.x) :
          /\ g2_returned.x[k].volume # g2_returned.x[m].volume
          /\ g2_returned.x[k].rot = 3
          /\ g2_returned.x[m].first = 2


\* The statistic every stat list of a log must hold at position k.
ExpectedStat(k, part) == Stat(k - 1, part, FoldRange(k - 1)[1], FoldRange(k - 1)[2])

\* C10: every stat list of the three logs, and rocs, holds one entry per fold
\* run so far, entry k coming from the model of fold k-1 on that fold's test
\* set (training set for the training log); after the function has returned
\* that is exactly num_folds entries.
C10_LogsHaveOneEntryPerFold ==
    LET done_folds == IF cv_pc \in {"loop", "done"} THEN fold_iter
                      ELSE IF cv_pc = "start" THEN 0 ELSE fold_iter - 1
    IN  /\ cv_pc \in {"start", "loop", "train", "done"} =>
             /\ Len(rocs) = done_folds
             /\ \A k \in 1..Len(rocs) : rocs[k] = ExpectedStat(k, "test")
             /\ \A key \in StatKeys :
                  /\ Len(all_data_log[key]) = done_folds
                  /\ Len(tr_all_data_log[key]) = done_folds
                  /\ Len(pat_all_data_log[key]) = done_folds
                  /\ \A k \in 1..done_folds :
                       /\ all_data_log[key][k] = ExpectedStat(k, "test")
                       /\ tr_all_data_log[key][k] = ExpectedStat(k, "train")
                       /\ pat_all_data_log[key][k] = ExpectedStat(k, "test")
        /\ cv_pc = "done" => done_folds = num_folds

\* C10 witness: a slice-level run has returned with ten entries in its logs.
C10_Witness ==
    /\ cv_pc = "done"
    /\ ~patient_level_cv
    /\ Len(all_data_log["accuracy"]) = NumFoldsSliceLevel
    /\ Len(rocs) = NumFoldsSliceLevel

\* ---------------------------------------------------------------- C11

\* How often the confirmation prompt has been shown.
ConfirmPrompts == Cardinality({k \in 1..Len(prompts) : prompts[k] = ConfirmPrompt})

\* C11: without skip_dialog, no file is written before the confirmation
\* prompt has been shown and answered with a line whose first character is
\* y or Y.
C11_NoFileBeforeConfirmation ==
    (sv_pc # "idle" /\ ~skip_dialog /\ files # << >>) =>
        /\ ConfirmPrompts >= 1
        /\ answer # << >>
        /\ answer[1] \in {"y", "Y"}

\* C11, the part that holds: without skip_dialog the training set and the
\* test set are written only after such an answer, and a run at the dialog
\* whose last answer is another line has not gone on.
C11_SetsSavedOnlyAfterYes ==
    (sv_pc # "idle" /\ ~skip_dialog) =>
        /\ (\E k \in 1..Len(files) : files[k][3][1] # "results") =>
              /\ ConfirmPrompts >= 1
              /\ answer # << >>
              /\ answer[1] \in {"y", "Y"}
        /\ (ConfirmPrompts >= 1 /\ (answer = << >> \/ answer[1] \notin {"y", "Y"})) =>
              sv_pc = "split"

\* A run without skip_dialog has written the results PDF and has not shown
\* the confirmation prompt yet.
C11_Witness ==
    /\ ~skip_dialog
    /\ sv_pc = "analyzed"
    /\ files # << >>
    /\ ConfirmPrompts = 0

\* ---------------------------------------------------------------- C12

\* C12: with skip_dialog set and plot_data not set, the run calls input() at
\* no point, whatever trim_data, data_interpolation, convert_to_2d and
\* resampling are.
C12_NoInputRequested ==
    (sv_pc # "idle" /\ skip_dialog /\ ~plot_data) => prompts = << >>

\* A run with skip_dialog, without plot_data and with resampling has been
\* asked for a line.
C12_Witness ==
    /\ skip_dialog /\ ~plot_data /\ resampling
    /\ sv_pc = "done"
    /\ prompts = << ResultsPrompt >>

\* ---------------------------------------------------------------- C13

\* C13: no write fails for a missing folder, whether or not data/ and
\* data/<dataset_name>/ exist when improved_save_data is called.
C13_WritesSucceedWithoutFolders ==
    sv_pc # "FileNotFoundError"

\* C13, the part that holds: a file is only ever written into a folder that
\* exists, and save_dataset_correctly leaves both folders in place.
C13_WrittenFilesHaveTheirFolder ==
    /\ \A k \in 1..Len(files) : Dirname(files[k]) \in folders
    /\ sv_pc \in {"training_set_saved", "done"} =>
          {DataFolder, DatasetFolder(dataset_name)} \subseteq folders

\* The first analysis of a run that was started without the folder data/.
C13_Witness ==
    /\ sv_pc = "FileNotFoundError"
    /\ folders = {}
    /\ files = << >>

\* ---------------------------------------------------------------- C14

\* The arrays the claim gives for a file: those under x and y when the file
\* holds both keys, those under arr_0 and arr_1 otherwise.
ClaimedArrays(file, npz) ==
    IF {"x", "y"} \subseteq npz.keys
    THEN << Content(file, "x"), Content(file, "y") >>
    ELSE << Content(file, "arr_0"), Content(file, "arr_1") >>

\* Whether a file can be read: it exists, and holds x and y or arr_0 and
\* arr_1.
Readable(npz) ==
    /\ npz.exists
    /\ {"x", "y"} \subseteq npz.keys \/ {"arr_0", "arr_1"} \subseteq npz.keys

\* C14: a call that returns hands back, for each set, the arrays under x and
\* y, or those under arr_0 and arr_1 when x or y is missing, and the four
\* pickles; a call returns only when both files can be read so and every
\* pickle exists, and otherwise ends with the exception and returns nothing.
C14_ReadsNamedKeysOrFallsBack ==
    lo_pc # "idle" =>
        /\ lo_pc = "returned" =>
              /\ lo_returned[1] = ClaimedArrays("training_set", lo_folder.training_set)
              /\ lo_returned[2] = ClaimedArrays("test_set", lo_folder.test_set)
              /\ lo_returned[3] = << Content("training_set_patients", ""),
                                     Content("training_set_masks", "") >>
              /\ lo_returned[4] = << Content("test_set_patients", ""),
                                     Content("test_set_masks", "") >>
              /\ Readable(lo_folder.training_set)
              /\ Readable(lo_folder.test_set)
              /\ lo_folder.pickles = Range(PickleNames)
        /\ lo_pc # "returned" => lo_returned = << >>
        /\ lo_pc = "KeyError" =>
              \/ lo_folder.training_set.exists /\ ~Readable(lo_folder.training_set)
              \/ lo_folder.test_set.exists /\ ~Readable(lo_folder.test_set)
        /\ lo_pc = "FileNotFoundError" =>
              \/ ~lo_folder.training_set.exists
              \/ ~lo_folder.test_set.exists
              \/ lo_folder.pickles # Range(PickleNames)
        /\ lo_pc \in {"training_set_loaded", "test_set_loaded"} =>
              train_arrays = ClaimedArrays("training_set", lo_folder.training_set)

\* A call that returned although the training set holds x without y: both
\* of its arrays come from arr_0 and arr_1.
C14_Witness ==
    /\ lo_pc = "returned"
    /\ lo_folder.training_set.keys = {"x", "arr_0", "arr_1"}
    /\ lo_folder.test_set.keys = {"x", "y"}
    /\ lo_returned[1] = << Content("training_set", "arr_0"),
                           Content("training_set", "arr_1") >>

\* ---------------------------------------------------------------- C15

\* C15: save_data or improved_save_data is called only with lists x, y and
\* patients of one length, and with the lists as loaded; when the lengths
\* differ the script ends at an assert statement and has called neither.
C15_CallsOnlyWithEqualLengths ==
    sc_pc # "idle" =>
        /\ sc_called # << >> =>
              /\ sc_files.x = sc_files.y
              /\ sc_files.x = sc_files.patients
              /\ sc_called[2] = sc_files.x
              /\ sc_called[3] = sc_files.y
              /\ sc_called[4] = sc_files.patients
        /\ (sc_files.x # sc_files.y \/ sc_files.x # sc_files.patients) =>
              /\ sc_pc \in {"start", "loaded", "AssertionError"}
              /\ sc_called = << >>
        /\ sc_pc = "AssertionError" =>
              (sc_files.x # sc_files.y \/ sc_files.x # sc_files.patients)

\* improved_save_data called with three lists of one length (and a masks
\* list of another, which the script does not compare).
C15_Witness ==
    /\ sc_pc = "called"
    /\ sc_called[1] = "improved_save_data"
    /\ sc_files.x = 2
    /\ sc_files.masks # sc_files.x

\* ---------------------------------------------------------------- C16

\* The distance of num / den from the ratio, times den and the ratio's
\* denominator.
ShareDistance(num, den, ratio) == Abs(num * ratio[2] - ratio[1] * den)

\* C16: get_bucket returns the bucket whose growth by one object leaves
\* bucket0 / (bucket0 + bucket1) at least as close to the ratio as the growth
\* of the other bucket would; for the buckets (2, 3) it returns 0 for the
\* ratio 0.5 and 1 for the ratio 0.66.
C16_ReturnsBucketThatBringsRatioCloser ==
    gb_pc = "returned" =>
        LET total == gb_bucket0 + gb_bucket1 + 1
            grown0 == ShareDistance(gb_bucket0 + 1, total, gb_ratio)
            grown1 == ShareDistance(gb_bucket0, total, gb_ratio)
        IN  /\ gb_returned = 0 => grown0 <= grown1
            /\ gb_returned = 1 => grown1 <= grown0
            /\ (gb_bucket0 = 2 /\ gb_bucket1 = 3 /\ gb_ratio = << 1, 2 >>) =>
                  gb_returned = 0
            /\ (gb_bucket0 = 2 /\ gb_bucket1 = 3 /\ gb_ratio = << 66, 100 >>) =>
                  gb_returned = 1

\* C16, what the code does: bucket 0 is returned exactly when its share of
\* the objects is below the ratio (or there is no object yet).
C16_ReturnsZeroBelowRatio ==
    gb_pc = "returned" =>
        /\ gb_returned \in {0, 1}
        /\ gb_returned = 0 <=>
              \/ gb_bucket0 + gb_bucket1 = 0
              \/ gb_bucket0 * gb_ratio[2] < gb_ratio[1] * (gb_bucket0 + gb_bucket1)

\* The call of the docstring's second example.
C16_Witness ==
    /\ gb_pc = "returned"
    /\ gb_bucket0 = 2 /\ gb_bucket1 = 3 /\ gb_ratio = << 66, 100 >>
    /\ gb_returned = 0

\* ---------------------------------------------------------------- C17

\* How often label is in the saved labels.
SavedLabelCount(label) ==
    Cardinality({k \in 1..Len(gn_saved.labels) : gn_saved.labels[k] = label})

\* C17: a finished call has saved num_samples samples of label 0 and
\* num_samples samples of label 1, in four lists of one length, with
\* pairwise distinct patient ids.
C17_SavesSamplesOfBothLabels ==
    gn_pc = "saved" =>
        /\ SavedLabelCount(0) = num_samples
        /\ SavedLabelCount(1) = num_samples
        /\ Len(gn_saved.images) = Len(gn_saved.labels)
        /\ Len(gn_saved.patients) = Len(gn_saved.labels)
        /\ Len(gn_saved.masks) = Len(gn_saved.labels)
        /\ \A a, b \in 1..Len(gn_saved.patients) :
              a # b => gn_saved.patients[a] # gn_saved.patients[b]

\* C17, what the code does: num_samples samples, all of label 0, in four
\* lists of that length, patient k being numbered number_first_patient + k.
C17_SavesSamplesOfLabelZero ==
    gn_pc = "saved" =>
        /\ SavedLabelCount(0) = num_samples
        /\ SavedLabelCount(1) = 0
        /\ Len(gn_saved.images) = num_samples
        /\ Len(gn_saved.labels) = num_samples
        /\ Len(gn_saved.patients) = num_samples
        /\ Len(gn_saved.masks) = num_samples
        /\ \A k \in 1..num_samples :
              gn_saved.patients[k] = FormatPatient(number_first_patient + k - 1)
        /\ \A a, b \in 1..Len(gn_saved.patients) :
              a # b => gn_saved.patients[a] # gn_saved.patients[b]

\* A finished call for two samples.
C17_Witness ==
    /\ gn_pc = "saved"
    /\ num_samples = 2
    /\ gn_saved.labels = << 0, 0 >>

\* ---------------------------------------------------------------- C18

\* C18: at patient level, for a dataset of at least 11 patients, folds_indices
\* has 12 entries and each of the 11 folds a non-empty range
\* [folds_indices[i], folds_indices[i + 1]).
C18_ElevenNonEmptyFolds ==
    (cv_pc \notin {"idle", "start"} /\ patient_level_cv
        /\ num_patients >= NumFoldsPatientLevel) =>
        /\ Len(folds_indices) = NumFoldsPatientLevel + 1
        /\ \A f \in 1..NumFoldsPatientLevel :
              f + 1 <= Len(folds_indices) => folds_indices[f] < folds_indices[f + 1]

\* C18, what the code computes: the folds hold ceil(num_patients / 11)
\* patients each, but for the last, so there are ceil(num_patients /
\* ceil(num_patients / 11)) of them, each with a non-empty range.
C18_FoldsOfCeilingSize ==
    (cv_pc \notin {"idle", "start"} /\ patient_level_cv) =>
        LET per_fold == Ceil(num_patients, NumFoldsPatientLevel)
        IN  /\ Len(folds_indices) = Ceil(num_patients, per_fold) + 1
            /\ \A f \in 1..(Len(folds_indices) - 1) :
                  folds_indices[f] < folds_indices[f + 1]

\* The seventh fold of a dataset of 12 patients finds no range.
C18_Witness ==
    /\ cv_pc = "IndexError"
    /\ patient_level_cv
    /\ num_patients = 12
    /\ Len(folds_indices) = 7
    /\ i = 6

\* ---------------------------------------------------------------- C19

\* C19: while the patients are distributed, results[3] has one entry per
\* patient of the dataset being split, the number of slices the contour of
\* that patient spans.
C19_ContourSlicesAlignedWithPatients ==
    sv_pc = "distribute" =>
        /\ Len(results.abs_num_slices) = Len(data.x)
        /\ \A k \in 1..Len(data.x) :
              k <= Len(results.abs_num_slices) =>
                  results.abs_num_slices[k] = MaskExtent(data.masks[k])

\* C19, what the code computes: results[3] has one entry per patient whose
\* volume has at least 3 slices, in order.
C19_ContourSlicesOfThickVolumes ==
    sv_pc = "distribute" =>
        LET thick == SortedSeq({k \in 1..Len(data.x) : NumSlices(data.x[k]) >= MinSlices})
        IN  results.abs_num_slices = [j \in 1..Len(thick) |-> MaskExtent(data.masks[thick[j]])]

\* The loop ran off the end of results[3]: a volume of 2 slices stands
\* first, and the last patient finds no entry.
C19_Witness ==
    /\ sv_pc = "IndexError"
    /\ pos = Len(data.x)
    /\ NumSlices(data.x[1]) < MinSlices
    /\ Len(results.abs_num_slices) = Len(data.x) - 1

\* ---------------------------------------------------------------- C20

\* No id of the list comes back after another id.
Contiguous(ids) ==
    \A a, b, c \in 1..Len(ids) :
        (a < b /\ b < c /\ ids[a] = ids[c]) => ids[b] = ids[a]

Distinct(ids) == \A a, b \in 1..Len(ids) : a # b => ids[a] # ids[b]

\* C20: for distinct patient ids, the samples of one patient id are
\* contiguous in the output of generate_2D_dataset.
C20_SamplesOfPatientContiguous ==
    (g2_pc = "returned" /\ Distinct(g2_samples.patients)) =>
        Contiguous(g2_returned.patients)

\* C20, the parts that hold: without rotate_data the output of
\* generate_2D_dataset is contiguous, and so is the training set followed by
\* the test set as improved_save_data saves them.
C20_ContiguousWithoutRotation ==
    /\ (g2_pc = "returned" /\ ~g2_rotate_data /\ Distinct(g2_samples.patients)) =>
          Contiguous(g2_returned.patients)
    /\ (sv_pc = "done" /\ Distinct(given.patients)) =>
          Contiguous(saved[1].set.patients \o saved[2].set.patients)

\* Rotated samples of the patients "1" and "190": the copies of "1" turned
\* by 90 degrees are named "190" as well.
C20_Witness ==
    /\ g2_pc = "returned"
    /\ g2_rotate_data
    /\ Distinct(g2_samples.patients)
    /\ \E a, b, c \in 1..Len(g2_returned.patients) :
          /\ a < b /\ b < c
          /\ g2_returned.patients[a] = g2_returned.patients[c]
          /\ g2_returned.patients[b] # g2_returned.patients[a]
          /\ g2_returned.x[a].volume # g2_returned.x[c].volume

\* ---------------------------------------------------------------- C21

\* The distinct ids of a list in the order of their first appearance.
RECURSIVE AppearanceOrder(_)
AppearanceOrder(ids) ==
    IF ids = << >> THEN << >>
    ELSE LET front == AppearanceOrder(Front(ids))
         IN  IF Last(ids) \in Range(front) THEN front ELSE Append(front, Last(ids))

\* The slices of a patient in the call, and those of them labelled 1.
LabelSlicesOf(p) == {k \in 1..Len(cl_patients) : cl_patients[k] = p}
LabelOnesOf(p) == {k \in LabelSlicesOf(p) : slices_labels[k] = 1}

\* C21: when the slices of every patient are contiguous, the call returns
\* exactly one value per patient, in the order in which the patients appear,
\* and each value is the mean of the patient's slice labels: the number of
\* slices labelled 1 over the number of slices, a fraction between 0 and 1.
C21_OneMeanPerPatientInOrder ==
    (cl_pc = "returned" /\ Contiguous(cl_patients)) =>
        LET order == AppearanceOrder(cl_patients)
        IN  /\ cl_returned # << >>
            /\ Len(cl_returned) = Len(order)
            /\ \A k \in 1..Len(order) :
                /\ cl_returned[k][2] > 0
                /\ cl_returned[k][1] * Cardinality(LabelSlicesOf(order[k]))
                       = Cardinality(LabelOnesOf(order[k])) * cl_returned[k][2]
                /\ 0 <= cl_returned[k][1]
                /\ cl_returned[k][1] <= cl_returned[k][2]

\* C21 witness: patient A with labels 1, 0 and then patient B with label 1
\* give the means 1/2 and 1/1.
C21_Witness ==
    /\ cl_pc = "returned"
    /\ cl_patients = << "A", "A", "B" >>
    /\ slices_labels = << 1, 0, 1 >>
    /\ Contiguous(cl_patients)
    /\ Len(cl_returned) = 2
    /\ cl_returned[1][1] * 2 = cl_returned[1][2]
    /\ cl_returned[2][1] = cl_returned[2][2]

\* The call raises only for an empty input, or when the first patient id is
\* the empty string that prev_patient starts with (line 387 on the empty list).
C21_RaisesOnlyWithoutSlicesOrOnEmptyFirstId ==
    /\ cl_pc = "IndexError" => (cl_patients = << >> \/ cl_patients[1] = "")
    /\ (cl_pc = "returned") => (cl_patients # << >> /\ cl_patients[1] # "")

\* Whatever the order of the slices, the call returns one value per run of
\* equal patient ids.
C21_OneValuePerRun ==
    cl_pc = "returned" => Len(cl_returned) = Cardinality(PatientRuns(cl_patients))

\* ---------------------------------------------------------------- C22

\* num_left and num_right of the call, from the length of array_sort.
C22_NumLeft == RoundHalfEven(Len(te_array_sort) * te_trim_pos[1], 100)
C22_NumRight ==
    RoundHalfEven(Len(te_array_sort) * (100 - te_trim_pos[2] + te_trim_pos[1]), 100)
        - C22_NumLeft

\* array_sort has a num_left-th smallest and a num_right-th largest value.
C22_RanksExist ==
    /\ C22_NumLeft \in 1..Len(te_array_sort)
    /\ C22_NumRight \in 1..Len(te_array_sort)

\* The samples whose sort quantity lies strictly between the num_left-th
\* smallest and the num_right-th largest value of array_sort, in input order.
C22_Between ==
    LET n == Len(te_array_sort)
        val_left == KthSmallest(te_array_sort, C22_NumLeft)
        val_right == KthSmallest(te_array_sort, n - C22_NumRight + 1)
    IN  SortedSeq({k \in 1..Len(te_set.x) :
            LET q == SortQuantity(te_sort_method, te_set.x[k], te_set.masks[k])
            IN  q > val_left /\ q < val_right})

\* C22: trim_edges keeps a sample exactly when its sort quantity is strictly
\* greater than the num_left-th smallest value of array_sort and strictly
\* smaller than the num_right-th largest one, with num_left = round(n * lo)
\* and num_right = round(n * (1 - hi + lo)) - num_left; the kept samples are
\* in input order and the four returned lists hold the same samples.
C22_KeepsStrictlyBetweenInOrder ==
    (te_pc = "returned" /\ te_sort_method \in SortMethods /\ C22_RanksExist) =>
        LET kept == C22_Between
        IN  /\ te_returned.x = [j \in 1..Len(kept) |-> te_set.x[kept[j]]]
            /\ te_returned.y = [j \in 1..Len(kept) |-> te_set.y[kept[j]]]
            /\ te_returned.patients = [j \in 1..Len(kept) |-> te_set.patients[kept[j]]]
            /\ te_returned.masks = [j \in 1..Len(kept) |-> te_set.masks[kept[j]]]

\* C22 witness: of the sort values 3, 2, 1, 2 with the quartiles trimmed, the
\* second and the fourth sample are kept, the smallest and the largest go.
C22_Witness ==
    /\ te_pc = "returned"
    /\ te_sort_method = "sizes"
    /\ te_array_sort = << 3, 2, 1, 2 >>
    /\ te_trim_pos = TrimPosQuartiles
    /\ C22_RanksExist
    /\ te_returned.patients = << te_set.patients[2], te_set.patients[4] >>

\* Without such a rank the threshold wraps around (num_left = 0 makes
\* val_left the largest value, num_right = 0 makes val_right the smallest),
\* and no sample whose quantity is in array_sort is kept.
C22_NothingKeptWithoutRank ==
    (te_pc = "returned" /\ te_sort_method \in SortMethods
        /\ (C22_NumLeft = 0 \/ C22_NumRight = 0)) =>
        te_returned.x = << >>

\* ---------------------------------------------------------------- C23

\* The folder single_experiment_runner.main loads (line 785).
LoadedFolder == DatasetFolder(<< "organized" >>)

\* The places of a part in a name.
PlacesOf(name, part) == {k \in 1..Len(name) : name[k] = part}

\* The files of the two sets among the files written.
SetFiles ==
    {k \in 1..Len(files) : \E sub \in {"training_set", "test_set"} :
        files[k][3][1] = sub}

C23_WitnessAllSuffixes ==
    /\ sv_pc = "done"
    /\ dataset_name = << "organized", "_3d", "_trimmed", "2", "_interpolated" >>
    /\ \E k \in SetFiles : Dirname(files[k]) # LoadedFolder

====
